---- MODULE Spec2Model ----
(***************************************************************************)
(* Model of the Artemis archery-practice tracker: the recording session    *)
(* kept by the App component (src/src/App.tsx), its scoring helpers        *)
(* (src/src/utils/helpers.ts) and the Firestore adapter                    *)
(* (src/src/utils/firestore.ts).                                           *)
(*                                                                         *)
(* Coordinates are held on a grid of one ring width: a stored coordinate   *)
(* X stands for the normalised value X / RING_COUNT, so the target edge    *)
(* (normalised distance 1) is at grid distance RING_COUNT.  Precision is   *)
(* held in thousandths of a target unit.                                   *)
(*                                                                         *)
(* Every user event is one action: React flushes the state updates of a    *)
(* discrete event, re-renders and runs the effects before the next event   *)
(* is dispatched, so an action applies the handler's updates and then the  *)
(* effects whose dependencies changed.  An async handler is split at its   *)
(* await: the part before it captures the values of the render it was      *)
(* created in, the continuation runs later with those captured values.     *)
(***************************************************************************)
EXTENDS Integers, Sequences, FiniteSets, TLC

(* ---------------------------- program constants ------------------------ *)
RING_COUNT == 10
SHOTS_PER_END == 3
DEFAULT_ENDS_PER_ROUND == 6
MIN_ENDS == 1
MAX_ENDS == 12
TARGET_RADIUS_UNITS == 10

(* ------------------------------- bounds -------------------------------- *)
\* rounds finalized in one behaviour of the finalization runs
MaxSaves == 1
\* rounds finalized in one behaviour of the saved-list runs
MaxRounds == 2
\* ends of the working session the archer shoots at (the first ones)
MaxShotEnds == 2
\* target clicks dispatched to one rendered handler before the re-render
MaxBatch == 2
\* adapter calls of one kind in flight at one time
MaxInFlight == 1

\* grid points per target radius in the calls of the scoring helper
ScoreUnit == 20
\* largest coordinate, in grid points, of the calls of the scoring helper
MaxCoord == 24

\* bits of the significand a number keeps (53 in the program's doubles):
\* scaled down so that the sums of the helper calls reach it
MantissaBits == 24

\* stored shots under one end key of a document that is loaded
MaxStoredShots == 4

\* Ends of a round handed to computeAggregateStats in the helper calls
MaxStatsEnds == 2

\* shots of an End handed to calculateEndPrecision in the helper calls
MaxPrecisionShots == 3

\* click positions on the grid: inside ring 5, and outside the target
ClickPositions == {<<3, 4>>, <<12, 4>>}
\* numeric values, in tenths, typed into the ends-per-round input
EndsInputs == {0, 10, 25}
Notes == {"", "windy"}
Users == {"u1"}
NoUser == "none"
Views == {"home", "record", "stats", "profile"}

(* ------------------------------ helpers -------------------------------- *)
Min(a, b) == IF a < b THEN a ELSE b
Max(a, b) == IF a > b THEN a ELSE b

RECURSIVE SqrtBetween(_, _, _)
\* floor of the square root of n, given lo * lo <= n < hi * hi
SqrtBetween(n, lo, hi) ==
    IF hi - lo <= 1
    THEN lo
    ELSE LET mid == (lo + hi) \div 2
         IN  IF mid * mid <= n
             THEN SqrtBetween(n, mid, hi)
             ELSE SqrtBetween(n, lo, mid)

\* Math.sqrt on the grid, rounded down (arguments stay below 4096 * 4096)
Sqrt(n) == SqrtBetween(n, 0, 4096)

RECURSIVE SumSeq(_)
\* Array.prototype.reduce((total, v) => total + v, 0)
SumSeq(s) == IF s = <<>> THEN 0 ELSE Head(s) + SumSeq(Tail(s))

\* Array.prototype.slice(0, n)
SliceTo(s, n) == SubSeq(s, 1, Min(Len(s), n))

\* a slip of DropLast: the oldest element is dropped
DropFirst(s) == IF s = <<>> THEN s ELSE Tail(s)

\* Array.prototype.slice(0, -1)
DropLast(s) == SubSeq(s, 1, Max(Len(s) - 1, 0))

ShotScores(shots) == [i \in 1..Len(shots) |-> shots[i].score]

(* ----------------------- helpers.ts: scoring --------------------------- *)
generateEndTemplate == [shots |-> <<>>, endScore |-> 0, precision |-> 0]

\* a slip of calculateScoreAt: the edge of the target falls in the last ring
calculateScoreEdgeOn(x, y, unit) ==
    LET squared == x * x + y * y
        ring == IF squared > unit * unit
                THEN RING_COUNT
                ELSE Min(RING_COUNT - 1,
                         Sqrt(squared * RING_COUNT * RING_COUNT) \div unit)
    IN  Max(0, 10 - ring)

\* a slip of calculateScoreAt: the ring index is rounded, not floored
calculateScoreRounded(x, y, unit) ==
    LET squared == x * x + y * y
        ring == IF squared >= unit * unit
                THEN RING_COUNT
                ELSE (2 * Sqrt(squared * RING_COUNT * RING_COUNT) + unit)
                         \div (2 * unit)
    IN  Max(0, 10 - ring)

\* calculateScore for coordinates held in 1/unit of the target radius:
\* Math.floor(Math.min(distance, 1) * RING_COUNT) is taken on the squares
calculateScoreAt(x, y, unit) ==
    LET squared == x * x + y * y
        ring == IF squared >= unit * unit
                THEN RING_COUNT
                ELSE Sqrt(squared * RING_COUNT * RING_COUNT) \div unit
    IN  Max(0, 10 - ring)

\* calculateScore on the grid of one ring width
calculateScore(x, y) == calculateScoreAt(x, y, RING_COUNT)

\* distance between two shots in thousandths of a target unit
calculateDistanceBetweenShots(first, second, targetRadius) ==
    LET deltaX == first.x - second.x
        deltaY == first.y - second.y
    IN  (Sqrt((deltaX * deltaX + deltaY * deltaY) * 10000) * 10 * targetRadius)
            \div RING_COUNT

\* the spacing of the representable numbers at magnitude n >= 0
RECURSIVE Ulp(_)
Ulp(n) == IF n < 2 ^ MantissaBits THEN 1 ELSE 2 * Ulp(n \div 2)

\* the representable number nearest to n, ties to the even significand: the
\* rounding of the result of the number type's +
RoundToNearest(n) ==
    LET magnitude == IF n < 0 THEN -n ELSE n
        ulp == Ulp(magnitude)
        quotient == magnitude \div ulp
        rest == magnitude % ulp
        rounded == IF 2 * rest < ulp \/ (2 * rest = ulp /\ quotient % 2 = 0)
                   THEN quotient * ulp
                   ELSE (quotient + 1) * ulp
    IN  IF n < 0 THEN -rounded ELSE rounded

\* values.reduce((sum, value) => sum + value, 0) over the first n values
RECURSIVE ReduceSum(_, _)
ReduceSum(values, n) ==
    IF n = 0
    THEN 0
    ELSE RoundToNearest(ReduceSum(values, n - 1) + values[n])

calculateAverage(values) ==
    IF Len(values) = 0
    THEN 0
    ELSE LET total == ReduceSum(values, Len(values))
         IN  total \div Len(values)

\* a slip of calculateEndPrecisionOf: a lone shot is measured from the center
calculateEndPrecisionFromCenter(shots, targetRadius) ==
    IF Len(shots) = 0
    THEN 0
    ELSE calculateAverage(
             [i \in 1..Len(shots) |->
                 calculateDistanceBetweenShots(
                     IF i = 1 THEN [x |-> 0, y |-> 0, score |-> 0] ELSE shots[i - 1],
                     shots[i], targetRadius)])

\* calculateEndPrecision(shots, targetRadius), in thousandths of a unit
calculateEndPrecisionOf(shots, targetRadius) ==
    IF Len(shots) <= 1
    THEN 0
    ELSE calculateAverage(
             [i \in 1..(Len(shots) - 1) |->
                 calculateDistanceBetweenShots(shots[i], shots[i + 1],
                                               targetRadius)])

\* calculateEndPrecision(shots), with the default targetRadius
calculateEndPrecision(shots) ==
    calculateEndPrecisionOf(shots, TARGET_RADIUS_UNITS)

\* calculateDistanceFromCenter(shot), in thousandths of a target unit
calculateDistanceFromCenter(shot) ==
    (Sqrt((shot.x * shot.x + shot.y * shot.y) * 10000) * 10 * TARGET_RADIUS_UNITS)
        \div RING_COUNT

(* ---------------- StatsView.tsx: computeAggregateStats ----------------- *)
RECURSIVE FlatMap(_, _)
\* items.flatMap(f): the sequences f[1], f[2], ... of a sequence of
\* sequences, joined
FlatMap(seqs, n) == IF n = 0 THEN <<>> ELSE FlatMap(seqs, n - 1) \o seqs[n]

Flatten(seqs) == FlatMap(seqs, Len(seqs))

\* values.filter(p => p > 0)
RECURSIVE FilterPositive(_)
FilterPositive(values) ==
    IF values = <<>>
    THEN <<>>
    ELSE (IF Head(values) > 0 THEN <<Head(values)>> ELSE <<>>)
             \o FilterPositive(Tail(values))

\* the number of shots of the sequence with score 0
RECURSIVE CountMissed(_)
CountMissed(shots) ==
    IF shots = <<>>
    THEN 0
    ELSE (IF Head(shots).score = 0 THEN 1 ELSE 0) + CountMissed(Tail(shots))

\* the number of shots of the sequence that lie outside the target
RECURSIVE CountOffTarget(_)
CountOffTarget(shots) ==
    IF shots = <<>>
    THEN 0
    ELSE (IF Head(shots).x * Head(shots).x + Head(shots).y * Head(shots).y
                 > RING_COUNT * RING_COUNT
          THEN 1 ELSE 0) + CountOffTarget(Tail(shots))

\* the shots of all Ends of all rounds, in order
AllShots(rounds) ==
    Flatten([r \in 1..Len(rounds) |->
                Flatten([e \in 1..Len(rounds[r].ends) |->
                            rounds[r].ends[e].shots])])

\* the aggregate with the fields computed from the shots and the precisions
AggregateStats(shots, endPrecisions, missedShots) ==
    [averagePoints |->
         calculateAverage([i \in 1..Len(shots) |-> shots[i].score * 1000]),
     averageDistanceFromCenter |->
         calculateAverage([i \in 1..Len(shots) |->
                              calculateDistanceFromCenter(shots[i])]),
     missedShots |-> missedShots,
     averagePrecision |-> calculateAverage(endPrecisions),
     shotCount |-> Len(shots)]

\* a slip of computeAggregateStats: Ends with precision 0 enter the mean
computeAggregateStatsAllEnds(rounds) ==
    AggregateStats(AllShots(rounds),
                   Flatten([r \in 1..Len(rounds) |->
                               [e \in 1..Len(rounds[r].ends) |->
                                   rounds[r].ends[e].precision]]),
                   CountMissed(AllShots(rounds)))

\* a slip of computeAggregateStats: a miss is a shot outside the target
computeAggregateStatsOffTarget(rounds) ==
    AggregateStats(AllShots(rounds),
                   Flatten([r \in 1..Len(rounds) |->
                               FilterPositive(
                                   [e \in 1..Len(rounds[r].ends) |->
                                       rounds[r].ends[e].precision])]),
                   CountOffTarget(AllShots(rounds)))

\* computeAggregateStats(rounds); averagePoints in thousandths of a point,
\* the distances in thousandths of a target unit
computeAggregateStats(rounds) ==
    AggregateStats(AllShots(rounds),
                   Flatten([r \in 1..Len(rounds) |->
                               FilterPositive(
                                   [e \in 1..Len(rounds[r].ends) |->
                                       rounds[r].ends[e].precision])]),
                   CountMissed(AllShots(rounds)))

(* ------------- the helpers of src/unnamed/part_006: clamping ----------- *)
\* clampShotToTargetEdge: the shot with its coordinates in thousandths of
\* the target radius, pulled onto the edge when it lies outside the target
clampShotToTargetEdge(shot) ==
    LET squared == shot.x * shot.x + shot.y * shot.y
        distance == Sqrt(squared * 10000)
    IN  IF squared <= RING_COUNT * RING_COUNT
        THEN [x |-> shot.x * 100, y |-> shot.y * 100, score |-> shot.score]
        ELSE [x |-> (shot.x * 100000) \div distance,
              y |-> (shot.y * 100000) \div distance,
              score |-> shot.score]

\* calculateDistanceBetweenShots on clamped shots, in thousandths of a unit
calculateDistanceBetweenClamped(first, second, targetRadius) ==
    LET deltaX == first.x - second.x
        deltaY == first.y - second.y
    IN  Sqrt(deltaX * deltaX + deltaY * deltaY) * targetRadius

\* calculateEndPrecision of part_006, in thousandths of a unit
calculateEndPrecisionClamped(shots, targetRadius) ==
    IF Len(shots) <= 1
    THEN 0
    ELSE LET clampedShots == [i \in 1..Len(shots) |->
                                 clampShotToTargetEdge(shots[i])]
         IN  calculateAverage(
                 [i \in 1..(Len(clampedShots) - 1) |->
                     calculateDistanceBetweenClamped(
                         clampedShots[i], clampedShots[i + 1], targetRadius)])

(* ------------------------------- state --------------------------------- *)
VARIABLES
    view,               \* App state: the active view
    user,               \* App state: uid of the signed-in user, or NoUser
    endsPerRound,       \* App state
    endsPerRoundInput,  \* App state: text of the ends-per-round input
    currentEndIndex,    \* App state: 0-based index of the selected End
    currentRound,       \* App state: the working session, a sequence of Ends
    rounds,             \* App state: the saved rounds list, newest first
    practiceNotes,      \* App state
    nextId,             \* next value handed out as round id and timestamp
    store,              \* the adapter's documents, per user
    pendingSaves,       \* handleSaveRound calls waiting at their await
    pendingDeletes,     \* handleDeleteRound calls waiting at their await
    pendingLoads,       \* auth callbacks waiting for loadRoundsFromFirestore
    surfaced,           \* what the last step showed or threw to its caller
    call,               \* a call of a pure helper: its arguments and its result
    localNotes,         \* StatsView state: round id -> text of its notes box
    notesChanged,       \* StatsView state: round id -> the text was edited
    saveStatus,         \* StatsView state: round id -> 'saving' or 'saved'
    pendingDeleteId,    \* StatsView state: the round of the delete dialog
    isDeleting,         \* StatsView state
    deleteError,        \* StatsView state
    pendingNotesSaves,  \* handleSaveNotes calls waiting at their await
    savedTimers         \* round ids with a 2-second 'saved' timer running

\* the state of the StatsView on screen and of its callbacks
statsVars == <<localNotes, notesChanged, saveStatus, pendingDeleteId,
               isDeleting, deleteError, pendingNotesSaves, savedTimers>>

vars == <<view, user, endsPerRound, endsPerRoundInput, currentEndIndex,
          currentRound, rounds, practiceNotes, nextId, store, pendingSaves,
          pendingDeletes, pendingLoads, surfaced, call, statsVars>>

\* text of the input: empty, not a number, or a number held in tenths
EmptyText == [kind |-> "empty", val |-> 0]
NaNText == [kind |-> "nan", val |-> 0]
NumText(v) == [kind |-> "num", val |-> v]
\* String(n) for an integer n
StringOf(n) == NumText(n * 10)

EmptyRound(n) == [i \in 1..n |-> generateEndTemplate]

\* no helper is being called
NoCall == [fn |-> "none", args |-> <<>>, done |-> FALSE, result |-> <<>>]

(* ---------------------- StatsView.tsx: state --------------------------- *)
\* useState<string | null>(null): no round is pending in the delete dialog
NoRound == 0

\* a Record<string, ...> without keys
NoEntries == [id \in {} |-> ""]

\* map[id] ?? default
Get(map, id, default) == IF id \in DOMAIN map THEN map[id] ELSE default

\* { ...map, [id]: value }
Put(map, id, value) ==
    [k \in DOMAIN map \cup {id} |-> IF k = id THEN value ELSE map[k]]

\* App renders the StatsView for view v and user u
StatsOnScreen(v, u) == u # NoUser /\ v = "stats"

\* the notesMap of the rounds effect: the notes of the rounds that have any
notesMap(list) ==
    LET noted == {i \in 1..Len(list) : list[i].notes \notin {"undefined", ""}}
        last(id) == CHOOSE i \in noted :
                        /\ list[i].id = id
                        /\ \A j \in noted : list[j].id = id => j <= i
    IN  [id \in {list[i].id : i \in noted} |-> list[last(id)].notes]

\* The state of a StatsView constructed over the saved list.  The
\* handleSaveNotes calls of the StatsView that left the screen go on
\* waiting: their continuations set state of an unmounted component.
MountStatsView(list) ==
    /\ localNotes' = notesMap(list)
    /\ notesChanged' = NoEntries
    /\ saveStatus' = NoEntries
    /\ pendingDeleteId' = NoRound
    /\ isDeleting' = FALSE
    /\ deleteError' = "null"
    /\ savedTimers' = NoEntries
    /\ pendingNotesSaves' = [i \in 1..Len(pendingNotesSaves) |->
           [pendingNotesSaves[i] EXCEPT !.mounted = FALSE]]

\* The StatsView after a step of the App that commits view v, user u and
\* the saved list: it is constructed when it comes on screen, dropped when
\* it leaves, and runs its rounds effect when the step set the list.
renderStatsView(v, u, list, roundsSet) ==
    IF ~StatsOnScreen(v, u)
    THEN MountStatsView(<<>>)
    ELSE IF ~StatsOnScreen(view, user)
    THEN MountStatsView(list)
    ELSE /\ localNotes' = IF roundsSet THEN notesMap(list) ELSE localNotes
         /\ UNCHANGED <<notesChanged, saveStatus, pendingDeleteId, isDeleting,
                        deleteError, pendingNotesSaves, savedTimers>>

\* the App component after construction
InitSession ==
    /\ view = "home"
    /\ user = NoUser
    /\ endsPerRound = DEFAULT_ENDS_PER_ROUND
    /\ endsPerRoundInput = StringOf(DEFAULT_ENDS_PER_ROUND)
    /\ currentEndIndex = 0
    /\ currentRound = EmptyRound(DEFAULT_ENDS_PER_ROUND)
    /\ rounds = <<>>
    /\ practiceNotes = ""
    /\ nextId = 1
    /\ pendingSaves = {}
    /\ pendingDeletes = {}
    /\ pendingLoads = {}
    /\ surfaced = "none"
    /\ localNotes = NoEntries
    /\ notesChanged = NoEntries
    /\ saveStatus = NoEntries
    /\ pendingDeleteId = NoRound
    /\ isDeleting = FALSE
    /\ deleteError = "null"
    /\ pendingNotesSaves = <<>>
    /\ savedTimers = NoEntries

\* the App component after construction, for users without stored rounds
InitApp == InitSession /\ store = [u \in Users |-> {}]

Init == InitApp /\ call = NoCall

(* ------------------------- App.tsx: effects ---------------------------- *)
\* resetRoundState with the endsPerRound of the render it was created in
resetRoundState(epr) ==
    [currentEndIndex |-> 0, currentRound |-> EmptyRound(epr), practiceNotes |-> ""]

\* a slip of adjustRound: the round is rebuilt from templates
adjustRoundFresh(prev, epr) == [i \in 1..epr |-> generateEndTemplate]

\* the updater of the endsPerRound effect
adjustRound(prev, epr) ==
    [i \in 1..epr |-> IF i <= Len(prev) THEN prev[i] ELSE generateEndTemplate]

\* a slip of runEffects: the selected index is left as it is when the
\* number of Ends changes
runEffectsKeepsIndex(oldView, oldEpr, v, epr, s) ==
    LET afterView == IF v # oldView /\ v = "record"
                     THEN [currentEndIndex |-> 0,
                           currentRound |-> [i \in 1..epr |-> generateEndTemplate],
                           practiceNotes |-> ""]
                     ELSE s
    IN  IF epr # oldEpr /\ v = "record"
        THEN [currentEndIndex |-> afterView.currentEndIndex,
              currentRound |->
                  [i \in 1..epr |-> IF i <= Len(afterView.currentRound)
                                    THEN afterView.currentRound[i]
                                    ELSE generateEndTemplate],
              practiceNotes |-> afterView.practiceNotes]
        ELSE afterView

\* The two effects, run after a render that committed view v and
\* endsPerRound epr over the session s = [currentEndIndex, currentRound,
\* practiceNotes]; oldView and oldEpr are the values of the render before.
runEffects(oldView, oldEpr, v, epr, s) ==
    LET afterView == IF v # oldView /\ v = "record"
                     THEN resetRoundState(epr)
                     ELSE s
    IN  IF epr # oldEpr /\ v = "record"
        THEN [currentEndIndex |-> Min(afterView.currentEndIndex, epr - 1),
              currentRound |-> adjustRound(afterView.currentRound, epr),
              practiceNotes |-> afterView.practiceNotes]
        ELSE afterView

Session == [currentEndIndex |-> currentEndIndex, currentRound |-> currentRound,
            practiceNotes |-> practiceNotes]

\* commit view v, endsPerRound epr and session s, then run the effects
Commit(v, epr, s) ==
    LET e == runEffects(view, endsPerRound, v, epr, s)
    IN  /\ view' = v
        /\ endsPerRound' = epr
        /\ currentEndIndex' = e.currentEndIndex
        /\ currentRound' = e.currentRound
        /\ practiceNotes' = e.practiceNotes

\* the record page is on screen
Recording == user # NoUser /\ view = "record"

(* --------------------- App.tsx: recording handlers --------------------- *)
\* the End at 0-based index i of round r, or "undefined"
HasEnd(r, i) == i >= 0 /\ i < Len(r)

\* the Shot handleTargetClick builds for a click at pos, held in 1/unit of
\* the target radius
clickShotAt(pos, unit) ==
    LET normalizedX == pos[1]
        normalizedY == pos[2]
        outside == normalizedX * normalizedX + normalizedY * normalizedY
                       > unit * unit
    IN  [x |-> normalizedX, y |-> normalizedY,
         score |-> IF outside
                   THEN 0
                   ELSE calculateScoreAt(normalizedX, normalizedY, unit)]

\* the Shot handleTargetClick builds for a click at grid position pos
clickShot(pos) == clickShotAt(pos, RING_COUNT)

\* a slip of updateEndWithShot: endScore is summed before the shot is added
updateEndStaleScore(prev, idx, shot) ==
    IF ~HasEnd(prev, idx)
    THEN prev
    ELSE LET shots == SliceTo(Append(prev[idx + 1].shots, shot), SHOTS_PER_END)
         IN  [prev EXCEPT ![idx + 1] =
                 [shots |-> shots,
                  endScore |-> SumSeq(ShotScores(prev[idx + 1].shots)),
                  precision |-> calculateEndPrecision(shots)]]

\* a slip of updateEndWithShot: the shot list is not capped
updateEndUncapped(prev, idx, shot) ==
    IF ~HasEnd(prev, idx)
    THEN prev
    ELSE LET shots == Append(prev[idx + 1].shots, shot)
         IN  [prev EXCEPT ![idx + 1] =
                 [shots |-> shots,
                  endScore |-> SumSeq(ShotScores(shots)),
                  precision |-> calculateEndPrecision(shots)]]

\* the updater of updateEndWithShot, for the index idx of its render
updateEndWithShot(prev, idx, shot) ==
    IF ~HasEnd(prev, idx)
    THEN prev
    ELSE LET shots == SliceTo(Append(prev[idx + 1].shots, shot), SHOTS_PER_END)
         IN  [prev EXCEPT ![idx + 1] =
                 [shots |-> shots,
                  endScore |-> SumSeq(ShotScores(shots)),
                  precision |-> calculateEndPrecision(shots)]]

RECURSIVE applyClicks(_, _, _)
\* the updaters queued by the clicks of one batch, applied in order
applyClicks(prev, idx, batch) ==
    IF batch = <<>>
    THEN prev
    ELSE applyClicks(updateEndWithShot(prev, idx, clickShot(Head(batch))),
                     idx, Tail(batch))

\* the clicks of the finalization runs: a pair dispatched to one render
SaveBatch == <<<<3, 4>>, <<12, 4>>>>

Batches == UNION {[1..n -> ClickPositions] : n \in 1..MaxBatch}

\* handleTargetClick, for every click of a batch dispatched to one render
handleTargetClick(batch) ==
    /\ Recording
    /\ surfaced' = "none"
    /\ UNCHANGED <<view, user, endsPerRound, endsPerRoundInput, currentEndIndex,
                   rounds, practiceNotes, nextId, store, pendingSaves,
                   pendingDeletes, pendingLoads,
                   call, statsVars>>
    /\ IF ~HasEnd(currentRound, currentEndIndex)
          \/ Len(currentRound[currentEndIndex + 1].shots) >= SHOTS_PER_END
       THEN UNCHANGED currentRound
       ELSE currentRound' = applyClicks(currentRound, currentEndIndex, batch)

\* a slip of the undo updater: the last shot of every End is removed
undoEveryEnd(prev, idx) ==
    IF ~HasEnd(prev, idx)
    THEN prev
    ELSE [i \in 1..Len(prev) |->
             LET shots == DropLast(prev[i].shots)
             IN  [shots |-> shots,
                  endScore |-> SumSeq(ShotScores(shots)),
                  precision |-> calculateEndPrecision(shots)]]

\* the updater of handleUndoShot
undoUpdater(prev, idx) ==
    IF ~HasEnd(prev, idx)
    THEN prev
    ELSE LET shots == DropLast(prev[idx + 1].shots)
         IN  [prev EXCEPT ![idx + 1] =
                 [shots |-> shots,
                  endScore |-> SumSeq(ShotScores(shots)),
                  precision |-> calculateEndPrecision(shots)]]

handleUndoShot ==
    /\ Recording
    /\ surfaced' = "none"
    /\ UNCHANGED <<view, user, endsPerRound, endsPerRoundInput, currentEndIndex,
                   rounds, practiceNotes, nextId, store, pendingSaves,
                   pendingDeletes, pendingLoads,
                   call, statsVars>>
    /\ IF ~HasEnd(currentRound, currentEndIndex)
          \/ Len(currentRound[currentEndIndex + 1].shots) = 0
       THEN UNCHANGED currentRound
       ELSE currentRound' = undoUpdater(currentRound, currentEndIndex)

\* onSelectEnd: a click on the card of End index
onSelectEnd(index) ==
    /\ Recording
    /\ HasEnd(currentRound, index)
    /\ currentEndIndex' = index
    /\ surfaced' = "none"
    /\ UNCHANGED <<view, user, endsPerRound, endsPerRoundInput, currentRound,
                   rounds, practiceNotes, nextId, store, pendingSaves,
                   pendingDeletes, pendingLoads,
                   call, statsVars>>

onPracticeNotesChange(value) ==
    /\ Recording
    /\ practiceNotes' = value
    /\ surfaced' = "none"
    /\ UNCHANGED <<view, user, endsPerRound, endsPerRoundInput, currentEndIndex,
                   currentRound, rounds, nextId, store, pendingSaves,
                   pendingDeletes, pendingLoads,
                   call, statsVars>>

\* BottomNav onSelect and the "Record New Practice" button
setView(v) ==
    /\ user # NoUser
    /\ Commit(v, endsPerRound, Session)
    /\ surfaced' = "none"
    /\ renderStatsView(v, user, rounds, FALSE)
    /\ UNCHANGED <<user, endsPerRoundInput, rounds, nextId, store, pendingSaves,
                   pendingDeletes, pendingLoads,
                   call>>

(* ------------------- App.tsx: ends-per-round input --------------------- *)
\* Math.floor of a value held in tenths
Floor(tenths) == tenths \div 10

\* a slip of clampEndsPerRound: no upper limit
clampEndsFromBelow(tenths) == Max(MIN_ENDS, Floor(tenths))

clampEndsPerRound(tenths) == Min(MAX_ENDS, Max(MIN_ENDS, Floor(tenths)))

handleEndsPerRoundInputChange(value) ==
    /\ Recording
    /\ endsPerRoundInput' = value
    /\ IF value.kind = "num"
       THEN Commit(view, clampEndsPerRound(value.val), Session)
       ELSE UNCHANGED <<view, endsPerRound, currentEndIndex, currentRound,
                        practiceNotes>>
    /\ surfaced' = "none"
    /\ UNCHANGED <<user, rounds, nextId, store, pendingSaves, pendingDeletes,
                   pendingLoads,
                   call, statsVars>>

handleEndsPerRoundInputBlur ==
    /\ Recording
    /\ IF endsPerRoundInput.kind = "num"
       THEN /\ endsPerRoundInput' = StringOf(clampEndsPerRound(endsPerRoundInput.val))
            /\ Commit(view, clampEndsPerRound(endsPerRoundInput.val), Session)
       ELSE /\ endsPerRoundInput' = StringOf(endsPerRound)
            /\ UNCHANGED <<view, endsPerRound, currentEndIndex, currentRound,
                           practiceNotes>>
    /\ surfaced' = "none"
    /\ UNCHANGED <<user, rounds, nextId, store, pendingSaves, pendingDeletes,
                   pendingLoads,
                   call, statsVars>>

TextInputs == {EmptyText, NaNText} \cup {NumText(v) : v \in EndsInputs}
\* the inputs of the finalization runs: "1" and "2.5"
SaveTextInputs == {NumText(10), NumText(25)}

(* ------------------------ firestore.ts: adapter ------------------------ *)
\* `end${String(endIndex + 1).padStart(2, '0')}`, as its two digits
endKey(endIndex) == <<(endIndex + 1) \div 10, (endIndex + 1) % 10>>

\* `shot${shotIndex + 1}`, as its digit
shotKey(shotIndex) == <<shotIndex + 1>>

RECURSIVE KeyLess(_, _)
\* string order of two keys with the same prefix, digit by digit
KeyLess(a, b) ==
    IF a = <<>> THEN b # <<>>
    ELSE IF b = <<>> THEN FALSE
    ELSE IF Head(a) # Head(b) THEN Head(a) < Head(b)
    ELSE KeyLess(Tail(a), Tail(b))

RECURSIVE SortKeys(_)
\* Object.keys(...).sort()
SortKeys(keys) ==
    IF keys = {}
    THEN <<>>
    ELSE LET first == CHOOSE k \in keys : \A o \in keys \ {k} : KeyLess(k, o)
         IN  <<first>> \o SortKeys(keys \ {first})

\* the document saveRoundToFirestore writes for a round
\* a stored value: a number, a value that is not a number, or none
Num(n) == [type |-> "number", val |-> n]
NotANumber == [type |-> "string", val |-> 0]
Undefined == [type |-> "undefined", val |-> 0]

storedRoundOf(round) ==
    [id |-> round.id,
     createdAt |-> round.createdAt,
     totalScore |-> Num(round.totalScore),
     round |-> [k \in {endKey(e) : e \in 0..(Len(round.ends) - 1)} |->
                  LET end == round.ends[CHOOSE e \in 1..Len(round.ends) :
                                            endKey(e - 1) = k]
                  IN  [j \in {shotKey(i) : i \in 0..(Len(end.shots) - 1)} |->
                          LET shot == end.shots[j[1]]
                          IN  [x |-> Num(shot.x), y |-> Num(shot.y),
                               score |-> Num(shot.score)]]]]

\* setDoc(doc(userRoundsRef, round.id), storedRound)
setDoc(docs, d) == {o \in docs : o.id # d.id} \cup {d}

\* deleteDoc(doc(db, 'users', userId, 'rounds', roundId))
deleteDoc(docs, roundId) == {o \in docs : o.id # roundId}

\* entry.key of a stored shot, undefined when the key is missing
Field(entry, key) == IF key \in DOMAIN entry THEN entry[key] ELSE Undefined

\* typeof v === 'number' ? v : 0
NumberOr0(v) == IF v.type = "number" THEN v.val ELSE 0

\* entries.filter(entry => ... 'score' in entry)
RECURSIVE WithScore(_)
WithScore(entries) ==
    IF entries = <<>>
    THEN <<>>
    ELSE (IF "score" \in DOMAIN Head(entries) THEN <<Head(entries)>> ELSE <<>>)
             \o WithScore(Tail(entries))

\* the Shot hydrated from a stored shot
hydrateShot(entry) ==
    [x |-> NumberOr0(Field(entry, "x")),
     y |-> NumberOr0(Field(entry, "y")),
     score |-> NumberOr0(Field(entry, "score"))]

\* the End hydrated from the stored shots of an end key
hydrateEnd(storedShots) ==
    LET shotKeys == SortKeys(DOMAIN storedShots)
        orderedShots == SliceTo(WithScore([i \in 1..Len(shotKeys) |->
                                              storedShots[shotKeys[i]]]),
                                SHOTS_PER_END)
        shots == [i \in 1..Len(orderedShots) |-> hydrateShot(orderedShots[i])]
    IN  [shots |-> shots,
         endScore |-> SumSeq(ShotScores(shots)),
         precision |-> calculateEndPrecision(shots)]

\* the Round loadRoundsFromFirestore hydrates from a document
hydrateRound(data) ==
    LET endKeys == SortKeys(DOMAIN data.round)
        ends == [i \in 1..Len(endKeys) |-> hydrateEnd(data.round[endKeys[i]])]
    IN  [id |-> data.id,
         createdAt |-> data.createdAt,
         ends |-> ends,
         totalScore |-> IF data.totalScore.type = "undefined"
                        THEN SumSeq([i \in 1..Len(ends) |-> ends[i].endScore])
                        ELSE data.totalScore.val,
         notes |-> "undefined"]

RECURSIVE NewestFirst(_)
\* query(userRoundsRef, orderBy('createdAt', 'desc'))
NewestFirst(docs) ==
    IF docs = {}
    THEN <<>>
    ELSE LET first == CHOOSE d \in docs :
                          \A o \in docs \ {d} : o.createdAt < d.createdAt
         IN  <<first>> \o NewestFirst(docs \ {first})

loadRoundsFromFirestore(docs) ==
    LET ordered == NewestFirst(docs)
    IN  [i \in 1..Len(ordered) |-> hydrateRound(ordered[i])]

(* ------------------- App.tsx: finalization and save -------------------- *)
\* a slip of isRoundComplete: only the selected End is looked at
isSelectedEndComplete ==
    /\ HasEnd(currentRound, currentEndIndex)
    /\ Len(currentRound[currentEndIndex + 1].shots) = SHOTS_PER_END

isRoundComplete ==
    /\ Len(currentRound) = endsPerRound
    /\ \A i \in 1..Len(currentRound) :
           Len(currentRound[i].shots) = SHOTS_PER_END

\* a slip of finalizedRound: totalScore is the score of the first End
finalizedRoundFirstEnd ==
    [id |-> nextId,
     createdAt |-> nextId,
     ends |-> currentRound,
     totalScore |-> IF currentRound = <<>> THEN 0 ELSE currentRound[1].endScore,
     notes |-> IF practiceNotes = "" THEN "undefined" ELSE practiceNotes]

\* the Round handleSaveRound builds from the session of its render
finalizedRound ==
    LET normalizedEnds ==
            [i \in 1..Len(currentRound) |->
                [shots |-> SliceTo(currentRound[i].shots, SHOTS_PER_END),
                 endScore |-> SumSeq(ShotScores(
                     SliceTo(currentRound[i].shots, SHOTS_PER_END))),
                 precision |-> calculateEndPrecision(
                     SliceTo(currentRound[i].shots, SHOTS_PER_END))]]
    IN  [id |-> nextId,
         createdAt |-> nextId,
         ends |-> normalizedEnds,
         totalScore |-> SumSeq([i \in 1..Len(normalizedEnds) |->
                                   normalizedEnds[i].endScore]),
         notes |-> IF practiceNotes = "" THEN "undefined" ELSE practiceNotes]

\* handleSaveRound up to its await
handleSaveRound ==
    /\ IF ~isRoundComplete \/ user = NoUser
       THEN UNCHANGED <<pendingSaves, nextId>>
       ELSE /\ pendingSaves' = pendingSaves \cup
                   {[round |-> finalizedRound, uid |-> user,
                     endsPerRound |-> endsPerRound]}
            /\ nextId' = nextId + 1
    /\ surfaced' = "none"
    /\ UNCHANGED <<view, user, endsPerRound, endsPerRoundInput, currentEndIndex,
                   currentRound, rounds, practiceNotes, store, pendingDeletes,
                   pendingLoads,
                   call, statsVars>>

\* currentRound.findIndex((e, index) => index > from && e.shots.length < SHOTS_PER_END)
nextIncompleteIndex(round, from) ==
    LET later == {i \in 0..(Len(round) - 1) :
                     i > from /\ Len(round[i + 1].shots) < SHOTS_PER_END}
    IN  IF later = {} THEN -1 ELSE CHOOSE i \in later : \A o \in later : i <= o

handleConfirmEnd ==
    /\ IF ~HasEnd(currentRound, currentEndIndex)
          \/ Len(currentRound[currentEndIndex + 1].shots) # SHOTS_PER_END
       THEN UNCHANGED currentEndIndex
       ELSE IF nextIncompleteIndex(currentRound, currentEndIndex) # -1
       THEN currentEndIndex' = nextIncompleteIndex(currentRound, currentEndIndex)
       ELSE IF currentEndIndex < endsPerRound - 1
       THEN currentEndIndex' = currentEndIndex + 1
       ELSE UNCHANGED currentEndIndex
    /\ surfaced' = "none"
    /\ UNCHANGED <<view, user, endsPerRound, endsPerRoundInput, currentRound,
                   rounds, practiceNotes, nextId, store, pendingSaves,
                   pendingDeletes, pendingLoads,
                   call, statsVars>>

\* the primary button of the record page
handlePrimaryActionClick ==
    /\ Recording
    /\ IF isRoundComplete THEN handleSaveRound ELSE handleConfirmEnd

\* the continuation of handleSaveRound after saveRoundToFirestore resolved
SaveSucceeds(p) ==
    /\ p \in pendingSaves
    /\ pendingSaves' = pendingSaves \ {p}
    /\ store' = [store EXCEPT ![p.uid] = setDoc(@, storedRoundOf(p.round))]
    /\ rounds' = <<p.round>> \o rounds
    /\ endsPerRoundInput' = StringOf(p.endsPerRound)
    /\ Commit("home", endsPerRound, resetRoundState(p.endsPerRound))
    /\ surfaced' = "none"
    /\ renderStatsView("home", user, <<p.round>> \o rounds, TRUE)
    /\ UNCHANGED <<user, nextId, pendingDeletes, pendingLoads,
                   call>>

\* a slip of SaveFails: the session is reset although the save failed
SaveFailsResets(p) ==
    /\ p \in pendingSaves
    /\ pendingSaves' = pendingSaves \ {p}
    /\ surfaced' = "alert"
    /\ Commit(view, endsPerRound, resetRoundState(p.endsPerRound))
    /\ UNCHANGED <<user, endsPerRoundInput, rounds, nextId, store,
                   pendingDeletes, pendingLoads,
                   call, statsVars>>

\* the continuation of handleSaveRound after saveRoundToFirestore rejected
SaveFails(p) ==
    /\ p \in pendingSaves
    /\ pendingSaves' = pendingSaves \ {p}
    /\ surfaced' = "alert"
    /\ UNCHANGED <<view, user, endsPerRound, endsPerRoundInput, currentEndIndex,
                   currentRound, rounds, practiceNotes, nextId, store,
                   pendingDeletes, pendingLoads,
                   call, statsVars>>

(* ------------------------- App.tsx: delete ----------------------------- *)
RoundIds == 1..MaxRounds

\* the archer shoots at the first ends only
ShootsFirstEnds == currentEndIndex < MaxShotEnds

\* a save is started only while ids are left and the adapter is not busy
MaySave(maxSaves) ==
    (isRoundComplete /\ user # NoUser) =>
        (nextId <= maxSaves /\ Cardinality(pendingSaves) < MaxInFlight)

MayDelete == Cardinality(pendingDeletes) < MaxInFlight

\* a slip of withoutRound: the newest round is removed, whatever the id
withoutNewest(list, roundId) == IF list = <<>> THEN list ELSE Tail(list)

\* rounds.filter(round => round.id !== roundId)
RECURSIVE withoutRound(_, _)
withoutRound(list, roundId) ==
    IF list = <<>> THEN <<>>
    ELSE IF Head(list).id # roundId
    THEN <<Head(list)>> \o withoutRound(Tail(list), roundId)
    ELSE withoutRound(Tail(list), roundId)

\* handleDeleteRound up to its await; the stats view is its only caller
handleDeleteRound(roundId) ==
    /\ user # NoUser => view = "stats"
    /\ IF user = NoUser
       THEN /\ surfaced' = "thrown"
            /\ UNCHANGED pendingDeletes
       ELSE /\ surfaced' = "none"
            /\ pendingDeletes' = pendingDeletes \cup
                   {[roundId |-> roundId, uid |-> user]}
    /\ UNCHANGED <<view, user, endsPerRound, endsPerRoundInput, currentEndIndex,
                   currentRound, rounds, practiceNotes, nextId, store,
                   pendingSaves, pendingLoads,
                   call, statsVars>>

\* the delete dialog on screen waits for delete p in handleConfirmDelete
Awaited(p) ==
    /\ StatsOnScreen(view, user)
    /\ isDeleting
    /\ pendingDeleteId = p.roundId
    /\ p.uid = user

\* the continuation of handleDeleteRound after deleteRoundFromFirestore
\* resolved, and then that of handleConfirmDelete
DeleteSucceeds(p) ==
    /\ p \in pendingDeletes
    /\ pendingDeletes' = pendingDeletes \ {p}
    /\ store' = [store EXCEPT ![p.uid] = deleteDoc(@, p.roundId)]
    /\ rounds' = withoutRound(rounds, p.roundId)
    /\ surfaced' = "none"
    /\ localNotes' = IF StatsOnScreen(view, user)
                     THEN notesMap(withoutRound(rounds, p.roundId))
                     ELSE localNotes
    /\ pendingDeleteId' = IF Awaited(p) THEN NoRound ELSE pendingDeleteId
    /\ isDeleting' = IF Awaited(p) THEN FALSE ELSE isDeleting
    /\ UNCHANGED <<view, user, endsPerRound, endsPerRoundInput, currentEndIndex,
                   currentRound, practiceNotes, nextId, pendingSaves,
                   pendingLoads,
                   call, notesChanged, saveStatus, deleteError,
                   pendingNotesSaves, savedTimers>>

\* the continuation of handleDeleteRound after deleteRoundFromFirestore
\* rejected, and then that of handleConfirmDelete
DeleteFails(p) ==
    /\ p \in pendingDeletes
    /\ pendingDeletes' = pendingDeletes \ {p}
    /\ surfaced' = "thrown"
    /\ deleteError' = IF Awaited(p) THEN "failed" ELSE deleteError
    /\ isDeleting' = IF Awaited(p) THEN FALSE ELSE isDeleting
    /\ UNCHANGED <<view, user, endsPerRound, endsPerRoundInput, currentEndIndex,
                   currentRound, rounds, practiceNotes, nextId, store,
                   pendingSaves, pendingLoads,
                   call, localNotes, notesChanged, saveStatus, pendingDeleteId,
                   pendingNotesSaves, savedTimers>>

(* -------------------------- App.tsx: auth ------------------------------ *)
\* handleSignIn: the auth callback runs with the user and starts a load
handleSignIn(u) ==
    /\ user = NoUser
    /\ user' = u
    /\ pendingLoads' = pendingLoads \cup {u}
    /\ surfaced' = "none"
    /\ UNCHANGED <<view, endsPerRound, endsPerRoundInput, currentEndIndex,
                   currentRound, rounds, practiceNotes, nextId, store,
                   pendingSaves, pendingDeletes,
                   call, statsVars>>

\* handleSignOut: the auth callback runs with null, then the view goes home
handleSignOut ==
    /\ user # NoUser
    /\ view = "profile"
    /\ user' = NoUser
    /\ rounds' = <<>>
    /\ Commit("home", endsPerRound, Session)
    /\ surfaced' = "none"
    /\ renderStatsView("home", NoUser, <<>>, TRUE)
    /\ UNCHANGED <<endsPerRoundInput, nextId, store, pendingSaves,
                   pendingDeletes, pendingLoads,
                   call>>

LoadSucceeds(u) ==
    /\ u \in pendingLoads
    /\ pendingLoads' = pendingLoads \ {u}
    /\ rounds' = loadRoundsFromFirestore(store[u])
    /\ surfaced' = "none"
    /\ renderStatsView(view, user, loadRoundsFromFirestore(store[u]), TRUE)
    /\ UNCHANGED <<view, user, endsPerRound, endsPerRoundInput, currentEndIndex,
                   currentRound, practiceNotes, nextId, store, pendingSaves,
                   pendingDeletes,
                   call>>

LoadFails(u) ==
    /\ u \in pendingLoads
    /\ pendingLoads' = pendingLoads \ {u}
    /\ surfaced' = "none"
    /\ UNCHANGED <<view, user, endsPerRound, endsPerRoundInput, currentEndIndex,
                   currentRound, rounds, practiceNotes, nextId, store,
                   pendingSaves, pendingDeletes,
                   call, statsVars>>

(* -------------------- StatsView.tsx: delete dialog --------------------- *)
\* the ids of the practice cards on screen
CardIds == {rounds[i].id : i \in 1..Len(rounds)}

\* pendingDeleteRound is not null: the dialog is rendered
DialogOpen == pendingDeleteId # NoRound /\ pendingDeleteId \in CardIds

\* disabled={isDeleting} of the Cancel and of the Delete button
cancelDisabled == isDeleting
deleteDisabled == isDeleting

\* what the App and the notes boxes keep over a step of the delete dialog
DialogKeeps ==
    UNCHANGED <<view, user, endsPerRound, endsPerRoundInput, currentEndIndex,
                currentRound, rounds, practiceNotes, nextId, store,
                pendingSaves, pendingLoads, call, localNotes, notesChanged,
                saveStatus, pendingNotesSaves, savedTimers>>

\* a slip of handleRequestDelete: the dialog moves to another round while a
\* delete is awaited
handleRequestDeleteAlways(roundId) ==
    /\ StatsOnScreen(view, user)
    /\ roundId \in CardIds
    /\ pendingDeleteId' = roundId
    /\ deleteError' = "null"
    /\ surfaced' = "none"
    /\ UNCHANGED <<isDeleting, pendingDeletes>>
    /\ DialogKeeps

\* the delete button of a practice card
handleRequestDelete(roundId) ==
    /\ StatsOnScreen(view, user)
    /\ roundId \in CardIds
    /\ IF isDeleting
       THEN UNCHANGED <<pendingDeleteId, deleteError>>
       ELSE /\ pendingDeleteId' = roundId
            /\ deleteError' = "null"
    /\ surfaced' = "none"
    /\ UNCHANGED <<isDeleting, pendingDeletes>>
    /\ DialogKeeps

\* the handler of the Cancel button
handleCancelDelete ==
    /\ StatsOnScreen(view, user)
    /\ DialogOpen
    /\ IF isDeleting
       THEN UNCHANGED <<pendingDeleteId, deleteError>>
       ELSE /\ pendingDeleteId' = NoRound
            /\ deleteError' = "null"
    /\ surfaced' = "none"
    /\ UNCHANGED <<isDeleting, pendingDeletes>>
    /\ DialogKeeps

\* the Delete button: handleConfirmDelete up to its await, which is
\* handleDeleteRound of the App up to its await
handleConfirmDelete ==
    /\ StatsOnScreen(view, user)
    /\ DialogOpen
    /\ ~deleteDisabled
    /\ IF pendingDeleteId = NoRound
       THEN UNCHANGED <<isDeleting, deleteError, pendingDeletes>>
       ELSE /\ isDeleting' = TRUE
            /\ deleteError' = "null"
            /\ pendingDeletes' = pendingDeletes \cup
                   {[roundId |-> pendingDeleteId, uid |-> user]}
    /\ surfaced' = "none"
    /\ UNCHANGED pendingDeleteId
    /\ DialogKeeps

(* ----------------------- StatsView.tsx: notes -------------------------- *)
\* disabled={!notesChanged[round.id] || saveStatus[round.id] === 'saving'}
notesSaveDisabled(roundId) ==
    \/ ~Get(notesChanged, roundId, FALSE)
    \/ Get(saveStatus, roundId, "idle") = "saving"

\* value={localNotes[round.id] ?? ''}
shownNotes(roundId) == Get(localNotes, roundId, "")

\* what the App and the delete dialog keep over a step of a notes box
NotesKeep ==
    UNCHANGED <<view, user, endsPerRound, endsPerRoundInput, currentEndIndex,
                currentRound, rounds, practiceNotes, nextId, pendingSaves,
                pendingDeletes, pendingLoads, call, pendingDeleteId,
                isDeleting, deleteError>>

\* the notes box of a practice card is edited
handleNotesChange(roundId, notes) ==
    /\ StatsOnScreen(view, user)
    /\ roundId \in CardIds
    /\ localNotes' = Put(localNotes, roundId, notes)
    /\ notesChanged' = Put(notesChanged, roundId, TRUE)
    /\ saveStatus' = Put(saveStatus, roundId, "idle")
    /\ surfaced' = "none"
    /\ UNCHANGED <<store, pendingNotesSaves, savedTimers>>
    /\ NotesKeep

\* the Save button of a notes box: handleSaveNotes up to its await
handleSaveNotes(roundId) ==
    /\ StatsOnScreen(view, user)
    /\ roundId \in CardIds
    /\ ~notesSaveDisabled(roundId)
    /\ saveStatus' = Put(saveStatus, roundId, "saving")
    /\ pendingNotesSaves' = Append(pendingNotesSaves,
           [roundId |-> roundId, notes |-> Get(localNotes, roundId, ""),
            uid |-> user, mounted |-> TRUE])
    /\ surfaced' = "none"
    /\ UNCHANGED <<store, localNotes, notesChanged, savedTimers>>
    /\ NotesKeep

\* updateRoundNotesInFirestore: the notes field of the document is replaced
updateRoundNotesInFirestore(docs, roundId, notes) ==
    {IF d.id = roundId
     THEN [k \in DOMAIN d \cup {"notes"} |-> IF k = "notes" THEN notes ELSE d[k]]
     ELSE d : d \in docs}

\* the continuation of handleSaveNotes after the adapter call resolved
NotesSaveSucceeds(i) ==
    /\ i \in 1..Len(pendingNotesSaves)
    /\ LET p == pendingNotesSaves[i]
       IN  /\ store' = [store EXCEPT ![p.uid] =
                           updateRoundNotesInFirestore(@, p.roundId, p.notes)]
           /\ IF p.mounted
              THEN /\ notesChanged' = Put(notesChanged, p.roundId, FALSE)
                   /\ saveStatus' = Put(saveStatus, p.roundId, "saved")
                   /\ savedTimers' = Put(savedTimers, p.roundId,
                                         Get(savedTimers, p.roundId, 0) + 1)
              ELSE UNCHANGED <<notesChanged, saveStatus, savedTimers>>
    /\ pendingNotesSaves' = SubSeq(pendingNotesSaves, 1, i - 1)
                            \o SubSeq(pendingNotesSaves, i + 1,
                                      Len(pendingNotesSaves))
    /\ surfaced' = "none"
    /\ UNCHANGED localNotes
    /\ NotesKeep

\* the continuation of handleSaveNotes after the adapter call rejected
NotesSaveFails(i) ==
    /\ i \in 1..Len(pendingNotesSaves)
    /\ LET p == pendingNotesSaves[i]
       IN  IF p.mounted
           THEN saveStatus' = Put(saveStatus, p.roundId, "idle")
           ELSE UNCHANGED saveStatus
    /\ pendingNotesSaves' = SubSeq(pendingNotesSaves, 1, i - 1)
                            \o SubSeq(pendingNotesSaves, i + 1,
                                      Len(pendingNotesSaves))
    /\ surfaced' = "alert"
    /\ UNCHANGED <<store, localNotes, notesChanged, savedTimers>>
    /\ NotesKeep

\* the callback of setTimeout(..., 2000) of a save that succeeded
SavedTimerFires(roundId) ==
    /\ Get(savedTimers, roundId, 0) > 0
    /\ saveStatus' = Put(saveStatus, roundId, "idle")
    /\ savedTimers' = IF savedTimers[roundId] = 1
                      THEN [k \in DOMAIN savedTimers \ {roundId} |->
                               savedTimers[k]]
                      ELSE Put(savedTimers, roundId, savedTimers[roundId] - 1)
    /\ surfaced' = "none"
    /\ UNCHANGED <<store, localNotes, notesChanged, pendingNotesSaves>>
    /\ NotesKeep

(* --------------------------- specification ----------------------------- *)
\* The recording session: every recording handler with every input, while
\* the archer does not press "Save Practice".
Next ==
    \/ \E u \in Users : handleSignIn(u)
    \/ \E v \in Views : setView(v)
    \/ \E batch \in Batches : ShootsFirstEnds /\ handleTargetClick(batch)
    \/ handleUndoShot
    \/ \E i \in 0..(MAX_ENDS - 1) : onSelectEnd(i)
    \/ \E n \in Notes : onPracticeNotesChange(n)
    \/ \E t \in TextInputs : handleEndsPerRoundInputChange(t)
    \/ handleEndsPerRoundInputBlur
    \/ ~isRoundComplete /\ handlePrimaryActionClick

Spec == Init /\ [][Next]_vars

\* Finalization: sessions are filled by pairs of clicks (a hit, then a
\* miss), walked with "Next End" and saved, with both outcomes of the
\* adapter call.
NextSave ==
    \/ \E u \in Users : handleSignIn(u)
    \/ handleSignOut
    \/ \E v \in Views : setView(v)
    \/ ShootsFirstEnds /\ handleTargetClick(SaveBatch)
    \/ \E n \in Notes : onPracticeNotesChange(n)
    \/ \E t \in SaveTextInputs : handleEndsPerRoundInputChange(t)
    \/ MaySave(MaxSaves) /\ handlePrimaryActionClick
    \/ MaySave(MaxSaves) /\ handleSaveRound
    \/ \E p \in pendingSaves : SaveSucceeds(p)
    \/ \E p \in pendingSaves : SaveFails(p)

SpecSave == Init /\ [][NextSave]_vars

\* Pressing "Save Practice" again: the button stays enabled while the
\* adapter call of an earlier press is awaited.  The archer leaves the
\* session on screen as it is while a save is in flight, apart from its
\* notes.
NextResave ==
    \/ \E u \in Users : handleSignIn(u)
    \/ \E v \in Views : pendingSaves = {} /\ setView(v)
    \/ pendingSaves = {} /\ ShootsFirstEnds /\ handleTargetClick(SaveBatch)
    \/ \E n \in Notes : onPracticeNotesChange(n)
    \/ \E t \in SaveTextInputs :
           pendingSaves = {} /\ handleEndsPerRoundInputChange(t)
    \/ (isRoundComplete => nextId <= MaxRounds) /\ handlePrimaryActionClick
    \/ \E p \in pendingSaves : SaveSucceeds(p)
    \/ \E p \in pendingSaves : SaveFails(p)

SpecResave == Init /\ [][NextResave]_vars

\* the texts typed into the ends-per-round input in the runs on the number
\* of Ends: "", "abc", "-1", "0", "2.5", "3", "8", "12" and "13"
EndsTextInputs ==
    {EmptyText, NaNText} \cup
        {NumText(v) : v \in {-10, 0, 25, 30, 80, 10 * MAX_ENDS, 10 * MAX_ENDS + 10}}

\* The number of Ends: the input is edited and blurred with every text, Ends
\* are selected, filled one shot at a time and confirmed, and the view is
\* changed.
NextEnds ==
    \/ \E u \in Users : handleSignIn(u)
    \/ \E v \in Views : setView(v)
    \/ ShootsFirstEnds /\ handleTargetClick(<< <<3, 4>> >>)
    \/ \E i \in 0..(MAX_ENDS - 1) : onSelectEnd(i)
    \/ \E t \in EndsTextInputs : handleEndsPerRoundInputChange(t)
    \/ handleEndsPerRoundInputBlur
    \/ ~isRoundComplete /\ handlePrimaryActionClick

SpecEnds == Init /\ [][NextEnds]_vars

\* The saved rounds list: one-end sessions are saved and deleted, with both
\* outcomes of every adapter call.
NextDelete ==
    \/ \E u \in Users : handleSignIn(u)
    \/ handleSignOut
    \/ \E u \in Users : LoadSucceeds(u)
    \/ \E u \in Users : LoadFails(u)
    \/ \E v \in Views : setView(v)
    \/ ShootsFirstEnds /\ handleTargetClick(SaveBatch)
    \/ handleEndsPerRoundInputChange(NumText(10))
    \/ MaySave(MaxRounds) /\ handlePrimaryActionClick
    \/ \E p \in pendingSaves : SaveSucceeds(p)
    \/ \E id \in RoundIds : MayDelete /\ handleDeleteRound(id)
    \/ \E p \in pendingDeletes : DeleteSucceeds(p)
    \/ \E p \in pendingDeletes : DeleteFails(p)

SpecDelete == Init /\ [][NextDelete]_vars

(* ------------------------------ claims --------------------------------- *)
\* the selected End of the working session
SelectedShots == currentRound[currentEndIndex + 1].shots

\* a step taken on the record page that stays there
OnRecordPage ==
    /\ Recording
    /\ view' = view
    /\ user' = user
    /\ endsPerRoundInput' = endsPerRoundInput

SomeTargetClick == OnRecordPage /\ \E batch \in Batches : handleTargetClick(batch)

\* C1: in every reachable state every End of the working session has
\* endScore equal to the sum of its shots' scores and precision equal to
\* calculateEndPrecision of its shots.
C1_DerivedFieldsFollowShots ==
    \A i \in 1..Len(currentRound) :
        /\ currentRound[i].endScore =
               SumSeq([j \in 1..Len(currentRound[i].shots) |->
                          currentRound[i].shots[j].score])
        /\ currentRound[i].precision =
               calculateEndPrecision(currentRound[i].shots)

\* an End holds a hit and a miss: its score and its precision are not 0
C1_Witness ==
    \E i \in 1..Len(currentRound) :
        /\ Len(currentRound[i].shots) = SHOTS_PER_END
        /\ currentRound[i].endScore > 0
        /\ currentRound[i].precision > 0

\* C2: no End of the working session ever holds more than SHOTS_PER_END
\* shots, and target clicks dispatched while the selected End is full, one
\* or several to the same render, leave the whole session unchanged.
C2_EndCappedAndFullEndIgnoresClicks ==
    /\ [](\A i \in 1..Len(currentRound) :
              Len(currentRound[i].shots) <= SHOTS_PER_END)
    /\ [][(/\ HasEnd(currentRound, currentEndIndex)
           /\ Len(SelectedShots) >= SHOTS_PER_END
           /\ SomeTargetClick)
          => UNCHANGED <<currentRound, currentEndIndex, practiceNotes,
                         endsPerRound, rounds>>]_vars

\* the selected End of the record page is full
C2_Witness ==
    /\ Recording
    /\ HasEnd(currentRound, currentEndIndex)
    /\ Len(SelectedShots) = SHOTS_PER_END
    /\ SelectedShots[2] # SelectedShots[3]

\* C3: undo on a selected End of n >= 1 shots leaves its first n - 1 shots
\* in order, with endScore and precision recomputed from them; undo on an
\* empty End changes nothing; and the undo updater applied after a click on
\* a non-full End gives back the session as it was before the click.
C3_UndoRemovesLastShot ==
    [][/\ (OnRecordPage /\ handleUndoShot) =>
              LET n == Len(SelectedShots)
                  kept == [j \in 1..(n - 1) |-> SelectedShots[j]]
                  after == currentRound'[currentEndIndex + 1]
              IN  IF n = 0
                  THEN currentRound' = currentRound
                  ELSE /\ after.shots = kept
                       /\ after.endScore =
                              SumSeq([j \in 1..(n - 1) |-> kept[j].score])
                       /\ after.precision = calculateEndPrecision(kept)
       /\ (/\ OnRecordPage
           /\ Len(SelectedShots) < SHOTS_PER_END
           /\ \E c \in ClickPositions : handleTargetClick(<<c>>)) =>
              undoUpdater(currentRound', currentEndIndex) = currentRound
      ]_vars

\* the selected End holds two different shots: undo has a last shot to pick
C3_Witness ==
    /\ Recording
    /\ HasEnd(currentRound, currentEndIndex)
    /\ Len(SelectedShots) = 2
    /\ SelectedShots[1] # SelectedShots[2]

\* C4: in the record view a change of endsPerRound from M to N leaves N
\* Ends: those at indices below min(M, N) as they were, those from M on
\* fresh and empty.
C4_EndsChangeKeepsRecordedEnds ==
    [][(view = "record" /\ endsPerRound' # endsPerRound) =>
          /\ Len(currentRound') = endsPerRound'
          /\ \A i \in 1..endsPerRound' :
                 IF i <= endsPerRound
                 THEN i <= Len(currentRound) /\ currentRound'[i] = currentRound[i]
                 ELSE currentRound'[i] =
                          [shots |-> <<>>, endScore |-> 0, precision |-> 0]
      ]_vars

\* two Ends are left of the session and the first one holds shots
C4_Witness ==
    /\ view = "record"
    /\ endsPerRound = 2
    /\ endsPerRoundInput = NumText(25)
    /\ Len(currentRound) = 2
    /\ currentRound[1].shots # <<>>
    /\ currentRound[2].shots = <<>>

\* C10: a target click and an undo change no End but the selected one and
\* leave currentEndIndex, endsPerRound and the saved rounds list alone;
\* selecting an End changes currentEndIndex and nothing of the session.
\* (Each implication is written as: the frame holds, or the step is none
\* of these handlers.)
C10_OnlySelectedEndChanges ==
    [][/\ \/ /\ Len(currentRound') = Len(currentRound)
             /\ \A i \in 1..Len(currentRound) :
                    i # currentEndIndex + 1 => currentRound'[i] = currentRound[i]
             /\ UNCHANGED <<currentEndIndex, endsPerRound, rounds>>
          \/ ~(SomeTargetClick \/ (OnRecordPage /\ handleUndoShot))
       /\ \/ UNCHANGED <<currentRound, endsPerRound, rounds, practiceNotes>>
          \/ ~(OnRecordPage /\ \E i \in 0..(MAX_ENDS - 1) : onSelectEnd(i))
      ]_vars

\* the second End is selected while the first one holds shots
C10_Witness ==
    /\ Recording
    /\ currentEndIndex = 1
    /\ Len(currentRound) >= 2
    /\ Len(currentRound[1].shots) = 2
    /\ Len(currentRound[2].shots) = 1

\* the session shows endsPerRound Ends of SHOTS_PER_END shots each
SessionComplete ==
    /\ Len(currentRound) = endsPerRound
    /\ \A i \in 1..Len(currentRound) :
           Len(currentRound[i].shots) = SHOTS_PER_END

\* the saves that leave their await in this step, and those that enter it
SettledSaves == pendingSaves \ pendingSaves'
StartedSaves == pendingSaves' \ pendingSaves

\* the adapter holds the round of save p after the step
Stored(p) == \E d \in store'[p.uid] : d.id = p.round.id

\* C5: a Round is handed to the adapter only from a complete session with
\* a user signed in; handleSaveRound called in any other state changes no
\* state and starts no adapter call.
C5_SaveOnlyWhenComplete ==
    [][/\ StartedSaves # {} => (SessionComplete /\ user # NoUser)
       /\ \/ UNCHANGED <<view, user, endsPerRound, endsPerRoundInput,
                         currentEndIndex, currentRound, rounds, practiceNotes,
                         nextId, store, pendingSaves, pendingDeletes,
                         pendingLoads>>
          \/ (SessionComplete /\ user # NoUser)
          \/ ~handleSaveRound
      ]_vars

\* a Round is waiting for the adapter
C5_Witness ==
    /\ pendingSaves # {}
    /\ \E p \in pendingSaves : Len(p.round.ends) = 2

\* Round r has n Ends of SHOTS_PER_END shots, and its sums are right
RoundConsistent(r, n) ==
    /\ Len(r.ends) = n
    /\ \A i \in 1..Len(r.ends) :
           /\ Len(r.ends[i].shots) = SHOTS_PER_END
           /\ r.ends[i].endScore =
                  SumSeq([j \in 1..Len(r.ends[i].shots) |-> r.ends[i].shots[j].score])
    /\ r.totalScore = SumSeq([i \in 1..Len(r.ends) |-> r.ends[i].endScore])

\* C6: every finalized Round, waiting for the adapter or in the saved list,
\* has SHOTS_PER_END shots in every End, endScore the sum of the End's shot
\* scores and totalScore the sum of the endScores; when it is handed over
\* it has endsPerRound Ends holding the session's shots in placement order.
C6_FinalizedRoundConsistent ==
    /\ [](/\ \A p \in pendingSaves : RoundConsistent(p.round, p.endsPerRound)
          /\ \A i \in 1..Len(rounds) :
                 RoundConsistent(rounds[i], Len(rounds[i].ends)))
    /\ [][\A p \in StartedSaves :
              /\ Len(p.round.ends) = endsPerRound
              /\ Len(p.round.ends) = Len(currentRound)
              /\ \A i \in 1..Len(currentRound) :
                     p.round.ends[i].shots = currentRound[i].shots
         ]_vars

\* a Round of two Ends is in the saved list
C6_Witness ==
    \E i \in 1..Len(rounds) :
        /\ Len(rounds[i].ends) = 2
        /\ rounds[i].totalScore > rounds[i].ends[1].endScore

\* C7: when a save fails, the step that handles the failure leaves the
\* session, the view and the saved list as they are, shows the alert and
\* starts no other save.
C7_FailedSaveChangesNothing ==
    [][\A p \in SettledSaves :
           Stored(p) \/
           /\ UNCHANGED <<currentRound, currentEndIndex, practiceNotes, view,
                          rounds, endsPerRound, endsPerRoundInput, store>>
           /\ surfaced' = "alert"
           /\ pendingSaves' \subseteq pendingSaves
      ]_vars

\* the alert is up over a complete session with notes, nothing was saved
C7_Witness ==
    /\ surfaced = "alert"
    /\ SessionComplete
    /\ practiceNotes # ""
    /\ rounds = <<>>

\* C8: when a save succeeds, the Round goes to the front of the saved list
\* and the session becomes endsPerRound empty Ends with the first End
\* selected and no notes.
C8_SavedSessionIsReset ==
    [][\A p \in SettledSaves :
           Stored(p) =>
               /\ rounds' = <<p.round>> \o rounds
               /\ Len(currentRound') = endsPerRound'
               /\ \A i \in 1..Len(currentRound') :
                      currentRound'[i] =
                          [shots |-> <<>>, endScore |-> 0, precision |-> 0]
               /\ currentEndIndex' = 0
               /\ practiceNotes' = ""
      ]_vars

\* the deletes that leave their await in this step
SettledDeletes == pendingDeletes \ pendingDeletes'

\* C9: a delete that succeeded removes the round with its id from the
\* saved list and nothing else; a delete that failed, or was called with
\* nobody signed in, throws and leaves the list as it is; no round leaves
\* the list while a delete is only waiting.
C9_DeleteRemovesThatRound ==
    [][/\ \A p \in SettledDeletes :
              IF surfaced' = "thrown"
              THEN rounds' = rounds /\ store' = store
              ELSE LET Kept(r) == r.id # p.roundId
                   IN  /\ rounds' = SelectSeq(rounds, Kept)
                       /\ \A d \in store'[p.uid] : d.id # p.roundId
       /\ (user = NoUser /\ \E id \in RoundIds : handleDeleteRound(id)) =>
              /\ surfaced' = "thrown"
              /\ UNCHANGED <<rounds, store, pendingDeletes>>
       /\ (SettledDeletes = {} /\ user' = user /\ pendingLoads' = pendingLoads) =>
              \A i \in 1..Len(rounds) :
                  \E j \in 1..Len(rounds') : rounds'[j] = rounds[i]
      ]_vars

\* two rounds were saved and the newer one was deleted
C9_Witness ==
    /\ nextId = 3
    /\ pendingSaves = {}
    /\ pendingDeletes = {}
    /\ Len(rounds) = 1
    /\ rounds[1].id = 1
    /\ \A u \in Users : \A d \in store[u] : d.id = 1

(* --------------------------- helper calls ------------------------------ *)
\* The pure helpers are called with arguments drawn from bounded sets; a
\* call is one step from its arguments to its result.
appVars == <<view, user, endsPerRound, endsPerRoundInput, currentEndIndex,
             currentRound, rounds, practiceNotes, nextId, store, pendingSaves,
             pendingDeletes, pendingLoads, surfaced, statsVars>>

Coords == (-MaxCoord)..MaxCoord

\* a call of helper fn that has not returned yet
Pending(fn, args) == [fn |-> fn, args |-> args, done |-> FALSE, result |-> <<>>]

\* the call returns result
Return(fn, result) ==
    /\ call.fn = fn
    /\ ~call.done
    /\ call' = [call EXCEPT !.done = TRUE, !.result = result]
    /\ UNCHANGED appVars

Returned(fn) == call.fn = fn /\ call.done

ScoreCalls == {Pending("calculateScore", <<x, y>>) : x, y \in Coords}

ClickCalls == {Pending("handleTargetClick", <<x, y>>) : x, y \in Coords}

\* calculateScore(x, y) with x, y in 1/ScoreUnit of the target radius
callCalculateScore ==
    Return("calculateScore",
           <<calculateScoreAt(call.args[1], call.args[2], ScoreUnit)>>)

\* the Shot handleTargetClick stores for a click at (x, y)
callClickShot ==
    Return("handleTargetClick", <<clickShotAt(call.args, ScoreUnit)>>)

\* shot positions on the grid of one ring width, on the target but for the
\* last one
PrecisionPoints == {<<-1, 0>>, <<1, 0>>, <<0, 0>>, <<2, 0>>, <<3, 4>>, <<9, 6>>}

\* the offsets a group of shots is moved by
Offsets == {<<0, 0>>, <<10, 0>>, <<-2, 5>>}

TargetRadii == {TARGET_RADIUS_UNITS, 2 * TARGET_RADIUS_UNITS}

ShotAt(pos) == [x |-> pos[1], y |-> pos[2], score |-> clickShot(pos).score]

ShotGroups ==
    UNION {[1..n -> {ShotAt(pos) : pos \in PrecisionPoints}] :
               n \in 0..MaxPrecisionShots}

\* every shot of the group moved by the same offset
Translated(shots, offset) ==
    [i \in 1..Len(shots) |->
        [x |-> shots[i].x + offset[1], y |-> shots[i].y + offset[2],
         score |-> shots[i].score]]

PrecisionCalls(fn) ==
    {Pending(fn, <<shots, targetRadius, offset>>) :
         shots \in ShotGroups, targetRadius \in TargetRadii, offset \in Offsets}

\* calculateEndPrecision of helpers.ts, for a group and for the moved group
callCalculateEndPrecision ==
    Return("calculateEndPrecision",
           <<calculateEndPrecisionOf(call.args[1], call.args[2]),
             calculateEndPrecisionOf(Translated(call.args[1], call.args[3]),
                                     call.args[2])>>)

\* calculateEndPrecision of part_006, for a group and for the moved group
callCalculateEndPrecisionClamped ==
    Return("calculateEndPrecisionClamped",
           <<calculateEndPrecisionClamped(call.args[1], call.args[2]),
             calculateEndPrecisionClamped(Translated(call.args[1], call.args[3]),
                                          call.args[2])>>)

\* the values averaged in the helper calls: scores, distances in
\* thousandths, and a value at the top of the significand
AverageValues == {0, 1, 3, 7000, 2 ^ MantissaBits}

\* the reorderings of a sequence of n values
Orders(n) ==
    {f \in [1..n -> 1..n] : \A i \in 1..n : \E j \in 1..n : f[j] = i}

\* a sequence of values and a reordering of it
AverageCalls(maxValues) ==
    {Pending("calculateAverage", <<values, order>>) :
         <<values, order>> \in
             UNION {[1..n -> AverageValues] \X Orders(n) : n \in 0..maxValues}}

\* calculateAverage of the values, and of the values reordered
callCalculateAverage ==
    Return("calculateAverage",
           <<calculateAverage(call.args[1]),
             calculateAverage([i \in 1..Len(call.args[1]) |->
                                  call.args[1][call.args[2][i]]])>>)

\* an End as updateEndWithShot leaves it after these clicks
EndOf(clicks) ==
    LET shots == [i \in 1..Len(clicks) |-> ShotAt(clicks[i])]
    IN  [shots |-> shots, endScore |-> SumSeq(ShotScores(shots)),
         precision |-> calculateEndPrecision(shots)]

\* the Ends of the rounds handed to computeAggregateStats: no shot, two
\* shots with a miss on the edge of the target, and three shots with a miss
\* outside the target
StatsEnds ==
    {generateEndTemplate,
     EndOf(<< <<RING_COUNT, 0>>, <<0, 0>> >>),
     EndOf(<< <<3, 4>>, <<9, 6>>, <<1, 0>> >>)}

\* rounds as handleSaveRound builds them; computeAggregateStats reads ends
StatsRounds(maxEnds) ==
    {[id |-> 0, createdAt |-> 0, ends |-> ends,
      totalScore |-> SumSeq([e \in 1..Len(ends) |-> ends[e].endScore])] :
         ends \in UNION {[1..n -> StatsEnds] : n \in 0..maxEnds}}

\* the calls with up to maxRounds rounds of up to maxEnds Ends
StatsCalls(maxRounds, maxEnds) ==
    {Pending("computeAggregateStats", <<selectedRounds>>) :
         selectedRounds \in
             UNION {[1..n -> StatsRounds(maxEnds)] : n \in 0..maxRounds}}

\* computeAggregateStats(rounds)
callComputeAggregateStats ==
    Return("computeAggregateStats", <<computeAggregateStats(call.args[1])>>)

\* The helper calls: every call of the bounded sets, from its arguments to
\* its result.
InitHelpers ==
    /\ InitApp
    /\ \/ call \in ScoreCalls
       \/ call \in ClickCalls
       \/ call \in PrecisionCalls("calculateEndPrecision")
       \/ call \in PrecisionCalls("calculateEndPrecisionClamped")
       \/ call \in AverageCalls(MaxPrecisionShots)
       \/ call \in StatsCalls(MaxRounds, MaxStatsEnds)

NextHelpers ==
    \/ callCalculateScore
    \/ callClickShot
    \/ callCalculateEndPrecision
    \/ callCalculateEndPrecisionClamped
    \/ callCalculateAverage
    \/ callComputeAggregateStats

SpecHelpers == InitHelpers /\ [][NextHelpers]_vars

(* ------------------------ loading stored rounds ------------------------ *)
\* the stored shots found under an end key: two well-formed shots, a shot
\* without score, one with a score that is not a number, one without x and
\* one with a y that is not a number
StoredShots ==
    {[x |-> Num(3), y |-> Num(4), score |-> Num(5)],
     [x |-> Num(0), y |-> Num(0), score |-> Num(10)],
     [x |-> Num(1), y |-> Num(0)],
     [x |-> Num(1), y |-> Num(0), score |-> NotANumber],
     [y |-> Num(4), score |-> Num(5)],
     [x |-> Num(3), y |-> NotANumber, score |-> Num(5)]}

\* up to maxShots shots written under one end key, shot1, shot2, ...
StoredEnds(maxShots) ==
    {[k \in {shotKey(i) : i \in 0..(n - 1)} |-> entries[k[1]]] :
         <<n, entries>> \in
             UNION {{n} \X [1..n -> StoredShots] : n \in 0..maxShots}}

\* a round as saveRoundToFirestore wrote it
WrittenRound(id) ==
    LET end == EndOf(<< <<0, 0>>, <<2, 0>>, <<1, 0>> >>)
    IN  storedRoundOf([id |-> id, createdAt |-> id, ends |-> <<end>>,
                       totalScore |-> end.endScore, notes |-> "undefined"])

\* the documents of a user: written by the program, or by an earlier version
\* or another writer, with one or two end keys and any totalScore
StoredDocuments(maxShots) ==
    {[id |-> 2, createdAt |-> 2, totalScore |-> total,
      round |-> [k \in {endKey(e) : e \in 0..ends} |->
                    IF k = endKey(0) THEN first ELSE WrittenRound(1).round[endKey(0)]]] :
         total \in {Undefined, Num(0), Num(15)},
         ends \in {0, 1},
         first \in StoredEnds(maxShots)}

InitLoad ==
    /\ InitSession
    /\ call = NoCall
    /\ store \in [Users ->
                    {{}} \cup {{d} : d \in StoredDocuments(MaxStoredShots)}
                        \cup {{d, WrittenRound(1)} :
                                  d \in StoredDocuments(MaxStoredShots)}]

\* The archer signs in and the stored rounds are loaded.
NextLoad ==
    \/ \E u \in Users : handleSignIn(u)
    \/ \E u \in pendingLoads : LoadSucceeds(u)
    \/ \E u \in pendingLoads : LoadFails(u)

SpecLoad == InitLoad /\ [][NextLoad]_vars

(* ---------------------- signing in and out ----------------------------- *)
\* the accounts that sign in on this device
Accounts == Users \cup {"u2"}

\* the id of the round an account saved in an earlier session
SavedBy(u) == IF u \in Users THEN 1 ELSE 2

\* every account has one round in the adapter
InitAccounts ==
    /\ InitSession
    /\ call = NoCall
    /\ store = [u \in Accounts |-> {WrittenRound(SavedBy(u))}]

\* Accounts sign in and out while the rounds are loaded; the pages are
\* visited and the ends-per-round input is edited meanwhile.
NextAccounts ==
    \/ \E u \in Accounts : handleSignIn(u)
    \/ handleSignOut
    \/ \E v \in Views : setView(v)
    \/ \E t \in SaveTextInputs : handleEndsPerRoundInputChange(t)
    \/ \E u \in pendingLoads : LoadSucceeds(u)
    \/ \E u \in pendingLoads : LoadFails(u)

SpecAccounts == InitAccounts /\ [][NextAccounts]_vars

(* --------------------------- the stats view ---------------------------- *)
\* callbacks of the notes boxes (awaited saves and 'saved' timers) at one time
MaxNotesCallbacks == 2

\* the awaited notes saves and the running 'saved' timers
NotesCallbacks ==
    LET RECURSIVE Timers(_)
        Timers(ids) == IF ids = {} THEN 0
                       ELSE LET id == CHOOSE id \in ids : TRUE
                            IN  savedTimers[id] + Timers(ids \ {id})
    IN  Len(pendingNotesSaves) + Timers(DOMAIN savedTimers)

\* the archer has two stored rounds
InitStats ==
    /\ InitSession
    /\ call = NoCall
    /\ store = [u \in Users |-> {WrittenRound(SavedBy(u)),
                                 WrittenRound(SavedBy(u) + 1)}]

\* The delete dialog of the stats view, with both outcomes of the adapter
\* call, while the archer moves between the views and signs out and in.
NextDialog ==
    \/ \E u \in Users : handleSignIn(u)
    \/ handleSignOut
    \/ \E v \in Views : setView(v)
    \/ \E u \in pendingLoads : LoadSucceeds(u)
    \/ \E u \in pendingLoads : LoadFails(u)
    \/ \E id \in CardIds : handleRequestDelete(id)
    \/ handleCancelDelete
    \/ handleConfirmDelete
    \/ \E p \in pendingDeletes : DeleteSucceeds(p)
    \/ \E p \in pendingDeletes : DeleteFails(p)

SpecDialog == InitStats /\ [][NextDialog]_vars

\* The notes boxes of the stats view, with both outcomes of the adapter
\* call, while the archer moves between the views and deletes rounds.
NextNotes ==
    \/ \E u \in Users : handleSignIn(u)
    \/ \E v \in Views : setView(v)
    \/ \E u \in pendingLoads : LoadSucceeds(u)
    \/ \E id \in CardIds, n \in Notes :
           n # shownNotes(id) /\ handleNotesChange(id, n)
    \/ \E id \in CardIds :
           NotesCallbacks < MaxNotesCallbacks /\ handleSaveNotes(id)
    \/ \E i \in 1..Len(pendingNotesSaves) : NotesSaveSucceeds(i)
    \/ \E i \in 1..Len(pendingNotesSaves) : NotesSaveFails(i)
    \/ \E id \in DOMAIN savedTimers : SavedTimerFires(id)
    \/ \E id \in CardIds : handleRequestDelete(id)
    \/ MayDelete /\ handleConfirmDelete
    \/ \E p \in pendingDeletes : DeleteSucceeds(p)

SpecNotes == InitStats /\ [][NextNotes]_vars

\* The notes boxes again, for an archer who edits a box only while no save
\* of its round is awaited, and who leaves the stats view, and comes back,
\* only while no notes save is awaited.
NextRevisit ==
    \/ \E u \in Users : handleSignIn(u)
    \/ \E v \in Views : pendingNotesSaves = <<>> /\ setView(v)
    \/ \E u \in pendingLoads : LoadSucceeds(u)
    \/ \E id \in CardIds, n \in Notes :
           /\ \A i \in 1..Len(pendingNotesSaves) :
                  pendingNotesSaves[i].roundId # id
           /\ n # shownNotes(id)
           /\ handleNotesChange(id, n)
    \/ \E id \in CardIds :
           NotesCallbacks < MaxNotesCallbacks /\ handleSaveNotes(id)
    \/ \E i \in 1..Len(pendingNotesSaves) : NotesSaveSucceeds(i)
    \/ \E i \in 1..Len(pendingNotesSaves) : NotesSaveFails(i)
    \/ \E id \in DOMAIN savedTimers : SavedTimerFires(id)
    \/ \E id \in CardIds : handleRequestDelete(id)
    \/ MayDelete /\ handleConfirmDelete
    \/ \E p \in pendingDeletes : DeleteSucceeds(p)

SpecRevisit == InitStats /\ [][NextRevisit]_vars

(* ------------------------- claims on the helpers ----------------------- *)
\* the square of the distance of the point the call was made with
SquaredDistance == call.args[1] * call.args[1] + call.args[2] * call.args[2]

\* C11: a shot at distance exactly 1 from the center scores non-zero and
\* every shot at distance greater than 1 scores 0, for calculateScore and
\* for the score the click handler stores.
C11_EdgeIsOnTarget ==
    /\ Returned("calculateScore") =>
           /\ SquaredDistance = ScoreUnit * ScoreUnit => call.result[1] # 0
           /\ SquaredDistance > ScoreUnit * ScoreUnit => call.result[1] = 0
    /\ Returned("handleTargetClick") =>
           /\ SquaredDistance = ScoreUnit * ScoreUnit => call.result[1].score # 0
           /\ SquaredDistance > ScoreUnit * ScoreUnit => call.result[1].score = 0

\* C11 as amended: a shot at distance exactly 1 from the center scores 0,
\* as every shot at distance greater than 1 does, and a shot at distance
\* less than 1 scores non-zero, for calculateScore and for the score the
\* click handler stores.
C11_EdgeScoresZero ==
    /\ Returned("calculateScore") =>
           call.result[1] = 0 <=> SquaredDistance >= ScoreUnit * ScoreUnit
    /\ Returned("handleTargetClick") =>
           call.result[1].score = 0 <=> SquaredDistance >= ScoreUnit * ScoreUnit

\* the click handler stored a click on the edge of the target with score 0
C11_Witness ==
    /\ Returned("handleTargetClick")
    /\ call.args = <<0, -ScoreUnit>>
    /\ call.result[1] = [x |-> 0, y |-> -ScoreUnit, score |-> 0]

\* C12: calculateScore returns 10 - k for a distance d with
\* k/10 <= d < (k+1)/10, k = 0..9, and 0 for d >= 1; the result is an
\* integer in 0..10, the same in the four quadrants, and no larger at any
\* point further out on the same row or column.
C12_ScoreFollowsRing ==
    Returned("calculateScore") =>
        LET x == call.args[1]
            y == call.args[2]
            score == call.result[1]
            Further(a, b) == a * a >= b * b
        IN  /\ score \in 0..10
            /\ \A k \in 0..9 :
                   (/\ k * k * ScoreUnit * ScoreUnit <= 100 * SquaredDistance
                    /\ 100 * SquaredDistance
                           < (k + 1) * (k + 1) * ScoreUnit * ScoreUnit)
                   => score = 10 - k
            /\ SquaredDistance >= ScoreUnit * ScoreUnit => score = 0
            /\ \A sx, sy \in {-1, 1} :
                   calculateScoreAt(sx * x, sy * y, ScoreUnit) = score
            /\ \A c \in Coords :
                   /\ Further(c, x) => calculateScoreAt(c, y, ScoreUnit) <= score
                   /\ Further(c, y) => calculateScoreAt(x, c, ScoreUnit) <= score

\* calculateScore returned 0 for a point on the edge of the target, and for
\* an off-axis point inside ring 7
C12_Witness ==
    /\ Returned("calculateScore")
    /\ \/ SquaredDistance = ScoreUnit * ScoreUnit /\ call.result[1] = 0
       \/ /\ call.args[1] # 0
          /\ call.args[2] < 0
          /\ call.result[1] = 3

\* a call of either version of calculateEndPrecision returned
ReturnedPrecision ==
    Returned("calculateEndPrecision") \/ Returned("calculateEndPrecisionClamped")

\* the sum of the distances of the shots to n times their centroid, each in
\* hundredths of a ring width and scaled by n
RECURSIVE CentroidDistances(_, _, _, _)
CentroidDistances(shots, sumX, sumY, i) ==
    IF i > Len(shots)
    THEN 0
    ELSE LET n == Len(shots)
             dx == n * shots[i].x - sumX
             dy == n * shots[i].y - sumY
         IN  Sqrt((dx * dx + dy * dy) * 100) * 10
                 + CentroidDistances(shots, sumX, sumY, i + 1)

\* the mean distance of the shots to their centroid, scaled by targetRadius,
\* in thousandths of a unit
MeanRadius(shots, targetRadius) ==
    LET n == Len(shots)
        sumX == SumSeq([i \in 1..n |-> shots[i].x])
        sumY == SumSeq([i \in 1..n |-> shots[i].y])
    IN  (CentroidDistances(shots, sumX, sumY, 1) * targetRadius) \div (n * n)

\* a and b differ by no more than a twentieth of a unit
Close(a, b) == a - b <= 50 /\ b - a <= 50

\* C13: for an End of two shots or more calculateEndPrecision is the mean
\* distance of the shots to their centroid scaled by the target radius: 1.0
\* for (-0.1, 0), (0.1, 0) with radius 10, 2 for (0, 0), (0.2, 0) with
\* radius 20.
C13_PrecisionIsMeanRadius ==
    (Returned("calculateEndPrecision") /\ Len(call.args[1]) >= 2) =>
        /\ Close(call.result[1], MeanRadius(call.args[1], call.args[2]))
        /\ (/\ call.args[1] = <<ShotAt(<<-1, 0>>), ShotAt(<<1, 0>>)>>
            /\ call.args[2] = TARGET_RADIUS_UNITS) => call.result[1] = 1000
        /\ (/\ call.args[1] = <<ShotAt(<<0, 0>>), ShotAt(<<2, 0>>)>>
            /\ call.args[2] = 2 * TARGET_RADIUS_UNITS) => call.result[1] = 2000

\* C14: moving every shot of an End by the same offset leaves
\* calculateEndPrecision unchanged, wherever the shots lie.
C14_PrecisionIgnoresOffset ==
    ReturnedPrecision => call.result[1] = call.result[2]

\* C15: calculateEndPrecision is 0 for no shot, for one shot, and for any
\* number of shots with the same coordinates.
C15_PrecisionZeroCases ==
    ReturnedPrecision =>
        LET shots == call.args[1]
            moved == Translated(call.args[1], call.args[3])
            Same(g) == \A i, j \in 1..Len(g) : g[i].x = g[j].x /\ g[i].y = g[j].y
        IN  /\ Len(shots) <= 1 => call.result = <<0, 0>>
            /\ Same(shots) => call.result[1] = 0
            /\ Same(moved) => call.result[2] = 0

\* three shots at one point off the target, and a lone shot, gave 0, in a
\* call that gives more than 0 for other groups
C15_Witness ==
    /\ Returned("calculateEndPrecisionClamped")
    /\ Len(call.args[1]) = MaxPrecisionShots
    /\ \A i \in 1..Len(call.args[1]) : call.args[1][i] = ShotAt(<<9, 6>>)
    /\ call.args[3] = <<10, 0>>
    /\ call.result = <<0, 0>>

\* C16: calculateAverage returns 0 for an empty sequence, v for [v] and
\* sum/length otherwise, and the same result for every reordering of the
\* sequence. The sum is compared where it is a number the type holds exactly.
C16_AverageIgnoresOrder ==
    Returned("calculateAverage") =>
        LET values == call.args[1]
        IN  /\ Len(values) = 0 => call.result[1] = 0
            /\ Len(values) = 1 => call.result[1] = values[1]
            /\ (Len(values) >= 1 /\ SumSeq(values) <= 2 ^ MantissaBits) =>
                   call.result[1] = SumSeq(values) \div Len(values)
            /\ call.result[2] = call.result[1]

\* the Ends of the rounds of a computeAggregateStats call, as pairs of the
\* round's and the End's position
StatsEndsOfCall ==
    {<<r, e>> \in (1..MaxRounds) \X (1..MaxStatsEnds) :
         r <= Len(call.args[1]) /\ e <= Len(call.args[1][r].ends)}

\* the shots of the rounds of a computeAggregateStats call, as triples of
\* the round's, the End's and the shot's position
StatsShotsOfCall ==
    {<<r, e, i>> \in (1..MaxRounds) \X (1..MaxStatsEnds) \X (1..SHOTS_PER_END) :
         /\ <<r, e>> \in StatsEndsOfCall
         /\ i <= Len(call.args[1][r].ends[e].shots)}

RECURSIVE SumOver(_, _)
\* the sum of f over the set S
SumOver(f, S) ==
    IF S = {}
    THEN 0
    ELSE LET x == CHOOSE y \in S : TRUE
         IN  f[x] + SumOver(f, S \ {x})

\* C17: averagePrecision of computeAggregateStats is the mean of the stored
\* precision of exactly the Ends, over all rounds, whose precision is
\* greater than 0, and 0 when there is none.
C17_AveragePrecisionSkipsZero ==
    Returned("computeAggregateStats") =>
        LET counted == {p \in StatsEndsOfCall :
                            call.args[1][p[1]].ends[p[2]].precision > 0}
            total == SumOver([p \in counted |->
                                 call.args[1][p[1]].ends[p[2]].precision],
                             counted)
            mean == call.result[1].averagePrecision
        IN  /\ counted = {} => mean = 0
            /\ counted # {} =>
                   /\ mean * Cardinality(counted) <= total
                   /\ total < (mean + 1) * Cardinality(counted)

\* two rounds with Ends of precision 0 between Ends of different non-zero
\* precision were averaged
C17_Witness ==
    /\ Returned("computeAggregateStats")
    /\ Len(call.args[1]) = 2
    /\ \E p, q, z \in StatsEndsOfCall :
           /\ p[1] # q[1]
           /\ call.args[1][z[1]].ends[z[2]].precision = 0
           /\ call.args[1][p[1]].ends[p[2]].precision > 0
           /\ call.args[1][q[1]].ends[q[2]].precision
                  > call.args[1][p[1]].ends[p[2]].precision
    /\ call.result[1].averagePrecision > 0

\* C18: shotCount of computeAggregateStats is the number of shots over all
\* Ends of all rounds, missedShots the number of those with score 0, and
\* every field is 0 for no round.
C18_ShotCounts ==
    Returned("computeAggregateStats") =>
        LET stats == call.result[1]
            Score(s) == call.args[1][s[1]].ends[s[2]].shots[s[3]].score
        IN  /\ stats.shotCount = Cardinality(StatsShotsOfCall)
            /\ stats.missedShots
                   = Cardinality({s \in StatsShotsOfCall : Score(s) = 0})
            /\ 0 <= stats.missedShots /\ stats.missedShots <= stats.shotCount
            /\ call.args[1] = <<>> =>
                   stats = [averagePoints |-> 0, averageDistanceFromCenter |-> 0,
                            missedShots |-> 0, averagePrecision |-> 0,
                            shotCount |-> 0]

\* shots on the target with score 0, shots outside it and scoring shots
\* were counted
C18_Witness ==
    /\ Returned("computeAggregateStats")
    /\ call.result[1].missedShots >= 3
    /\ call.result[1].shotCount > call.result[1].missedShots
    /\ \E s \in StatsShotsOfCall :
           LET shot == call.args[1][s[1]].ends[s[2]].shots[s[3]]
           IN  shot.score = 0 /\ shot.x = RING_COUNT /\ shot.y = 0

(* ------------------------- claims on loading --------------------------- *)
\* the stored shots of document d under its end key at position e, in the
\* order of their keys
StoredAt(d, e) ==
    LET key == SortKeys(DOMAIN d.round)[e]
        shotKeys == SortKeys(DOMAIN d.round[key])
    IN  [i \in 1..Len(shotKeys) |-> d.round[key][shotKeys[i]]]

\* the stored number under the key of the stored shot, 0 when the key is
\* missing or its value is not a number
StoredNumber(entry, key) ==
    IF key \in DOMAIN entry /\ entry[key].type = "number"
    THEN entry[key].val
    ELSE 0

\* the rounds on screen were loaded from the documents of the user
Loaded == user # NoUser /\ pendingLoads = {} /\ rounds # <<>>

\* C19: on load a stored shot whose score, x or y is missing or not a number
\* is hydrated with that field 0 and its other fields intact, the shot is
\* kept in its End at its position, and every hydrated field is a number.
C19_MalformedShotKept ==
    Loaded =>
        \A r \in 1..Len(rounds) :
            \E d \in store[user] :
                /\ d.id = rounds[r].id
                /\ Len(rounds[r].ends) = Cardinality(DOMAIN d.round)
                /\ \A e \in 1..Len(rounds[r].ends) :
                       LET stored == StoredAt(d, e)
                           shots == rounds[r].ends[e].shots
                       IN  /\ Len(shots) = Min(Len(stored), SHOTS_PER_END)
                           /\ \A i \in 1..Len(shots) :
                                  /\ i <= Len(stored)
                                  /\ shots[i].x = StoredNumber(stored[i], "x")
                                  /\ shots[i].y = StoredNumber(stored[i], "y")
                                  /\ shots[i].score
                                         = StoredNumber(stored[i], "score")
                                  /\ shots[i].x \in Int
                                  /\ shots[i].y \in Int
                                  /\ shots[i].score \in Int

\* C20: every loaded Round has endScore the sum of the End's hydrated shot
\* scores, precision the calculateEndPrecision of its hydrated shots, and
\* totalScore the sum of the End scores, whatever totalScore was stored.
C20_LoadedTotalsRecomputed ==
    Loaded =>
        \A r \in 1..Len(rounds) :
            /\ \A e \in 1..Len(rounds[r].ends) :
                   /\ rounds[r].ends[e].endScore
                          = SumSeq(ShotScores(rounds[r].ends[e].shots))
                   /\ rounds[r].ends[e].precision
                          = calculateEndPrecision(rounds[r].ends[e].shots)
            /\ rounds[r].totalScore
                   = SumSeq([e \in 1..Len(rounds[r].ends) |->
                                rounds[r].ends[e].endScore])

(* -------------------- claims on the order of shots --------------------- *)
\* the shots of the call in another order
Reordered(shots, order) == [i \in 1..Len(shots) |-> shots[order[i]]]

\* C30: calculateEndPrecision depends only on the positions of the shots of
\* the End, not on their order: every permutation of the shots gives the
\* same precision.
C30_PrecisionIgnoresOrder ==
    /\ Returned("calculateEndPrecision") =>
           \A order \in Orders(Len(call.args[1])) :
               calculateEndPrecisionOf(Reordered(call.args[1], order),
                                       call.args[2]) = call.result[1]
    /\ Returned("calculateEndPrecisionClamped") =>
           \A order \in Orders(Len(call.args[1])) :
               calculateEndPrecisionClamped(Reordered(call.args[1], order),
                                            call.args[2]) = call.result[1]

(* --------------------- claims on the round trip ------------------------ *)
\* the loaded Round has the id, createdAt, totalScore and notes of the saved
\* one and the same Ends in the same order, with the same shots in order
SameRound(loaded, saved) ==
    /\ loaded.id = saved.id
    /\ loaded.createdAt = saved.createdAt
    /\ loaded.totalScore = saved.totalScore
    /\ loaded.notes = saved.notes
    /\ Len(loaded.ends) = Len(saved.ends)
    /\ \A e \in 1..Len(saved.ends) : loaded.ends[e].shots = saved.ends[e].shots

\* C21: a finalized Round saved with saveRoundToFirestore and loaded with
\* loadRoundsFromFirestore from the store that holds what was written comes
\* back with the same id, createdAt, totalScore, notes, Ends and shots.
C21_RoundTrip ==
    [][\A p \in SettledSaves :
           Stored(p) =>
               LET loaded == loadRoundsFromFirestore(store'[p.uid])
               IN  \E j \in 1..Len(loaded) : SameRound(loaded[j], p.round)
      ]_vars

(* ------------------- claims on the number of Ends ---------------------- *)
\* C23: after any edits and blurs of the ends-per-round input endsPerRound
\* is an integer in MIN_ENDS..MAX_ENDS, a numeric text sets it to the
\* floored and clamped value, an empty or non-numeric text leaves it
\* unchanged, and on the record page the session has endsPerRound Ends.
C23_EndsPerRoundInRange ==
    /\ [](/\ endsPerRound \in MIN_ENDS..MAX_ENDS
          /\ Recording => Len(currentRound) = endsPerRound)
    /\ [][endsPerRound' # endsPerRound =>
              /\ endsPerRoundInput'.kind = "num"
              /\ endsPerRound'
                     = Min(MAX_ENDS, Max(MIN_ENDS, endsPerRoundInput'.val \div 10))
         ]_vars

\* "13" was typed and the record page shows 12 Ends
C23_Witness ==
    /\ Recording
    /\ endsPerRoundInput = NumText(10 * MAX_ENDS + 10)
    /\ endsPerRound = MAX_ENDS
    /\ Len(currentRound) = MAX_ENDS

\* C24: in every reachable state currentEndIndex is an index of the session:
\* 0 <= currentEndIndex < number of Ends.
C24_SelectedEndExists ==
    /\ 0 <= currentEndIndex
    /\ currentEndIndex < Len(currentRound)

\* the last of the Ends is selected after the number of Ends was cut to 1
\* while the second End held a shot
C24_Witness ==
    /\ Recording
    /\ endsPerRound = 1
    /\ endsPerRoundInput = NumText(-10)
    /\ currentEndIndex = 0
    /\ Len(currentRound) = 1
    /\ currentRound[1].shots # <<>>

(* ------------------------ claims on accounts --------------------------- *)
\* C25: in every reachable state the saved rounds list holds only rounds of
\* the signed-in user and is empty when nobody is signed in, also when the
\* auth state changes while a load is in flight.
C25_RoundsOfSignedInUser ==
    /\ user = NoUser => rounds = <<>>
    /\ user # NoUser =>
           \A i \in 1..Len(rounds) : \E d \in store[user] : d.id = rounds[i].id

\* the saves in flight that were built from the session on screen
SavesOfSession ==
    {q \in pendingSaves : q.uid = user /\ q.round.ends = finalizedRound.ends}

\* C26: a completed session is handed to the adapter at most once: no
\* save is started from a session while a save built from that session is
\* still in flight.
C26_SessionSavedOnce ==
    [][StartedSaves # {} => SavesOfSession = {}]_vars

\* C22: while a delete is awaited by the dialog (isDeleting), both buttons
\* are disabled, no step changes pendingDeleteId or starts another adapter
\* delete, and the handlers of the card's delete button and of Cancel
\* change nothing; when the awaited delete settles isDeleting is false
\* again, with the dialog closed if it resolved and kept open on the same
\* round with an error message if it rejected.
C22_DialogLockedWhileDeleting ==
    /\ [](isDeleting => cancelDisabled /\ deleteDisabled)
    /\ [][/\ (isDeleting /\ isDeleting') =>
                /\ pendingDeleteId' = pendingDeleteId
                /\ pendingDeletes' \subseteq pendingDeletes
          /\ isDeleting /\ (handleCancelDelete
                            \/ \E id \in CardIds : handleRequestDelete(id))
                => UNCHANGED <<pendingDeleteId, isDeleting, deleteError,
                               pendingDeletes, rounds, store>>
          /\ \A p \in SettledDeletes : Awaited(p) =>
                /\ ~isDeleting'
                /\ IF surfaced' = "thrown"
                   THEN /\ pendingDeleteId' = pendingDeleteId
                        /\ deleteError' = "failed"
                        /\ DialogOpen'
                   ELSE /\ pendingDeleteId' = NoRound
                        /\ ~DialogOpen'
                        /\ p.roundId \notin CardIds'
         ]_vars

\* the dialog is open on a round whose delete was awaited and rejected
C22_Witness ==
    /\ StatsOnScreen(view, user)
    /\ DialogOpen
    /\ ~isDeleting
    /\ deleteError = "failed"
    /\ pendingDeletes = {}

\* the notes the adapter holds for round id of the signed-in user: the
\* text of the last notes save that succeeded, or the notes the round was
\* loaded with
PersistedNotes(id) ==
    LET docs == {d \in store[user] : d.id = id /\ "notes" \in DOMAIN d}
        loaded == {i \in 1..Len(rounds) : rounds[i].id = id}
    IN  IF docs # {} THEN (CHOOSE d \in docs : TRUE).notes
        ELSE IF \E i \in loaded : rounds[i].notes # "undefined"
        THEN rounds[CHOOSE i \in loaded : rounds[i].notes # "undefined"].notes
        ELSE ""

\* C27: a notes box whose notesChanged entry is false shows the notes the
\* adapter holds for its round.
C27_UnchangedNotesArePersisted ==
    StatsOnScreen(view, user) =>
        \A id \in CardIds :
            (id \in DOMAIN notesChanged /\ ~notesChanged[id]) =>
                shownNotes(id) = PersistedNotes(id)

\* the notes saves of round id that wait for the adapter
SavesInFlight(id) ==
    {i \in 1..Len(pendingNotesSaves) : pendingNotesSaves[i].roundId = id}

\* C28: at most one notes save of a round waits for the adapter, and while
\* the save of a notes box on screen waits, its saveStatus is 'saving' and
\* its Save button is disabled.
C28_OneNotesSaveInFlight ==
    \A i \in 1..Len(pendingNotesSaves) :
        LET p == pendingNotesSaves[i]
        IN  /\ Cardinality(SavesInFlight(p.roundId)) <= 1
            /\ p.mounted =>
                   /\ Get(saveStatus, p.roundId, "idle") = "saving"
                   /\ notesSaveDisabled(p.roundId)

\* the texts of the notes saves of round id that succeeded: the notes field
\* of its document, which only such a save writes
SavedNotes(id) ==
    {d.notes : d \in {o \in store[user] : o.id = id /\ "notes" \in DOMAIN o}}

\* C29: once a notes save of a round succeeded, its notes box shows the
\* saved text whenever the stats view is on screen, unless the box was
\* edited since or a save of the round is awaited: also after the saved
\* list changed and after the stats view was left and entered again.
C29_SavedNotesStayShown ==
    StatsOnScreen(view, user) =>
        \A id \in CardIds :
            (/\ SavedNotes(id) # {}
             /\ ~Get(notesChanged, id, FALSE)
             /\ SavesInFlight(id) = {})
                => shownNotes(id) \in SavedNotes(id)

====
